---------------------------- MODULE Spec2Model ----------------------------
(***************************************************************************)
(* Model of the schema collection and merge engine of react-webmcp:        *)
(* buildInputSchema, validateSchema, the field fingerprints, mergeField,   *)
(* useSchemaCollector and useRegisterField.                                *)
(*                                                                         *)
(* Representation of JavaScript values                                     *)
(*   - a string is a TLA+ string, a number an integer, a boolean a         *)
(*     BOOLEAN;                                                            *)
(*   - an object is a function from its keys to its values; a key whose    *)
(*     value is undefined is left out of the domain (the code never tells  *)
(*     an absent key from a key holding undefined);                        *)
(*   - an enum value, which may be a string, a number or a boolean, is a   *)
(*     one-key record [s |-> ..], [n |-> ..] or [b |-> ..];                *)
(*   - an array is a sequence; an object or Map whose enumeration order    *)
(*     matters is a sequence of [key, value] entries.                      *)
(***************************************************************************)
EXTENDS Integers, Sequences, FiniteSets, TLC

VARIABLES
    \* buildInputSchema called directly: the argument, the schema returned,
    \* its JSON.stringify, and the position of the caller
    bFields, bSchema, bJson, bPc,
    \* validateSchema called directly: the arguments, process.env.NODE_ENV,
    \* the issues accumulated, the console.warn calls, the Error thrown and
    \* the position of the caller
    vFields, vOptions, vProduction, vIssues, vWarnings, vThrown, vPc,
    \* the fingerprints of two field lists compared: the lists, the two
    \* fingerprint strings and the position of the caller
    fListA, fListB, fPrintA, fPrintB, fPc,
    \* one WebMCP.Tool scope (useSchemaCollector) and the components that call
    \* useRegisterField under it:
    hPc,            \* "unmounted", "live", or "crashed" (a render threw)
    hProduction,    \* process.env.NODE_ENV === "production"
    hProps,         \* the props of the latest render: children, fields, strict
    contextFields,  \* contextFieldsRef.current, a Map in insertion order
    version,        \* the version state (setVersion)
    hMergedDeps,    \* dependency array of the merged useMemo at its last run
    hMerged,        \* the memoized merged field list
    hSchemaDep,     \* dependency (mergedFP) of the schema useMemo at its last run
    hSchema,        \* the memoized schema
    hMemoInputs,    \* the three sources the merged list was last computed from
    hRecomputed,    \* which of the two memos the latest render recomputed
    hWarnings,      \* console.warn calls of the latest render
    hThrown,        \* message of the Error the latest render threw
    comps,          \* per component: mounted, field of its latest render,
                    \* field captured by its latest effect run
    hCalls,         \* record of the registerField and unregisterField calls:
                    \* whether the latest call, with no render since, was
                    \* unregisterField with a name the table did not hold,
                    \* the names registered so far, and whether an effect
                    \* re-ran under another name
    \* one render of a WebMCP.Tool scope from given sources:
    mChildren,      \* the children prop
    mFieldsProp,    \* the fields prop
    mFieldProps,    \* the props of the WebMCP.Field components mounted, in
                    \* mount order
    mTable,         \* contextFieldsRef.current after their registrations
    mExtracted,     \* childrenFields
    mMerged,        \* the merged field list
    mWarnings,      \* console.warn calls of validateSchema in the merge
    mSchemaDep,     \* dependency (mergedFP) of the schema useMemo at its last run
    mSchema,        \* the memoized schema
    mPc,            \* "input", "merged", or "reordered" (rendered again
                    \* with a source iterated in another order)
    \* one component that calls useRegisterField, under a ToolContext
    \* provider or under none:
    rCtx,           \* useContext(ToolContext): NoContext or a provided value
    rProduction,    \* process.env.NODE_ENV === "production"
    rPc,            \* "unmounted", "mounted", or "crashed" (an effect threw)
    rField,         \* the field of the latest render
    rDeps,          \* the dependency (fp) of the latest render
    rEffect,        \* the latest effect run: the field it captured and
                    \* whether it returned a cleanup
    rCalls,         \* the ctx calls made by the latest step, in order
    rWarnings,      \* console.warn calls of the latest step
    \* one component that calls useWebMCPTool, and navigator.modelContext:
    tMc,            \* whether navigator.modelContext is available
    tPc,            \* "unmounted" or "mounted"
    tConfig,        \* configRef.current: the config of the latest render
    tDeps,          \* the dependency array of the latest render
    tRegisteredName,\* registeredNameRef.current ("" for null)
    tEffect,        \* the latest effect run: the config it captured and
                    \* whether it returned a cleanup
    tRegistry,      \* the tool definitions registered with
                    \* navigator.modelContext and not unregistered
    tCalls,         \* the modelContext calls made by the latest step
    tErrors,        \* console.warn and console.error calls of the latest step
    tStep,          \* the latest step: "mount", "render", "unmount", "invoke"
    tInvoked        \* the handler and the input of the latest invocation of
                    \* a registered execute function

bvars == <<bFields, bSchema, bJson, bPc>>
vvars == <<vFields, vOptions, vProduction, vIssues, vWarnings, vThrown, vPc>>
fvars == <<fListA, fListB, fPrintA, fPrintB, fPc>>
hvars == <<hPc, hProduction, hProps, contextFields, version, hMergedDeps,
           hMerged, hSchemaDep, hSchema, hMemoInputs, hRecomputed, hWarnings,
           hThrown, comps, hCalls>>
mvars == <<mChildren, mFieldsProp, mFieldProps, mTable, mExtracted, mMerged,
           mWarnings, mSchemaDep, mSchema, mPc>>
rvars == <<rCtx, rProduction, rPc, rField, rDeps, rEffect, rCalls, rWarnings>>
tvars == <<tMc, tPc, tConfig, tDeps, tRegisteredName, tEffect, tRegistry,
           tCalls, tErrors, tStep, tInvoked>>
vars == <<bvars, vvars, fvars, hvars, mvars, rvars, tvars>>

-----------------------------------------------------------------------------
(* Bounds of the model *)

MaxBuildFields == 3

MaxValidateFields == 2

MaxFingerprintFields == 2

\* setVersion calls modelled (the version counter itself is unbounded)
MaxVersion == 5

-----------------------------------------------------------------------------
(* Generic helpers *)

Has(o, k) == k \in DOMAIN o

EmptyObj == [k \in {} |-> k]

\* { [key]: value } when cond, {} otherwise
Opt(cond, k, v) == IF cond THEN k :> v ELSE EmptyObj

Range(s) == {s[i] : i \in 1..Len(s)}

RECURSIVE JoinStr(_, _)
JoinStr(strs, sep) ==
    IF strs = <<>> THEN ""
    ELSE IF Len(strs) = 1 THEN strs[1]
    ELSE strs[1] \o sep \o JoinStr(Tail(strs), sep)

\* the concatenation of a sequence of sequences
RECURSIVE Flatten(_)
Flatten(seqs) ==
    IF seqs = <<>> THEN <<>> ELSE Head(seqs) \o Flatten(Tail(seqs))

SeqsUpTo(S, n) == UNION {[1..k -> S] : k \in 0..n}

-----------------------------------------------------------------------------
(* Strings: the names the model uses, with the two orders the code sorts   *)
(* them by and the array-index test of JavaScript property keys.           *)

AllNames == {"", "10", "9", "apple", "email", "Zulu"}

\* a.localeCompare(b): collation order (digits before letters, letters in
\* dictionary order with case a tertiary difference)
LocaleRank(n) ==
    CASE n = "" -> 0 [] n = "10" -> 1 [] n = "9" -> 2 [] n = "apple" -> 3
      [] n = "email" -> 4 [] n = "Zulu" -> 5

LocaleCompare(a, b) == LocaleRank(a) - LocaleRank(b)

\* Array.prototype.sort() without a comparator: UTF-16 code unit order
\* ('1' 0x31 < '9' 0x39 < 'Z' 0x5A < 'a' 0x61 < 'e' 0x65)
CodeUnitRank(n) ==
    CASE n = "" -> 0 [] n = "10" -> 1 [] n = "9" -> 2 [] n = "Zulu" -> 3
      [] n = "apple" -> 4 [] n = "email" -> 5

CodeUnitCompare(a, b) == CodeUnitRank(a) - CodeUnitRank(b)

\* A property key that is a canonical array index, and its numeric value
IsArrayIndex(n) == n \in {"9", "10"}

ArrayIndexOf(n) == CASE n = "9" -> 9 [] n = "10" -> 10

\* String(x) / template-literal conversion of a boolean and of a number
BoolStr(b) == IF b THEN "true" ELSE "false"

NumStr(n) == ToString(n)

-----------------------------------------------------------------------------
(* JavaScript objects and arrays *)

\* Array.prototype.sort, which is stable: cmp[j][i] is the comparator's
\* result for s[j] and s[i]; s[i] lands after the elements that compare less
\* than it and the elements before it that compare equal to it
ArraySort(s, cmp) ==
    LET Place(i) ==
            1 + Cardinality({j \in 1..Len(s) :
                                cmp[j][i] < 0 \/ (cmp[j][i] = 0 /\ j < i)})
    IN  [p \in 1..Len(s) |-> s[CHOOSE i \in 1..Len(s) : Place(i) = p]]

\* obj[key] = value on an ordinary object, kept in [[OwnPropertyKeys]] order:
\* array-index keys first in ascending numeric order, then the other string
\* keys in the order they were first set; setting an existing key keeps its
\* place.
ObjKeys(obj) == [i \in 1..Len(obj) |-> obj[i].key]

ObjHas(obj, k) == \E i \in 1..Len(obj) : obj[i].key = k

ObjGet(obj, k) == obj[CHOOSE i \in 1..Len(obj) : obj[i].key = k].value

EntryBefore(e, k) ==
    /\ IsArrayIndex(e.key)
    /\ ArrayIndexOf(e.key) < ArrayIndexOf(k)

ObjSet(obj, k, v) ==
    IF ObjHas(obj, k)
    THEN [i \in 1..Len(obj) |->
            IF obj[i].key = k THEN [key |-> k, value |-> v] ELSE obj[i]]
    ELSE IF IsArrayIndex(k)
    THEN LET n == Cardinality({i \in 1..Len(obj) : EntryBefore(obj[i], k)})
         IN  SubSeq(obj, 1, n) \o <<[key |-> k, value |-> v]>>
                \o SubSeq(obj, n + 1, Len(obj))
    ELSE Append(obj, [key |-> k, value |-> v])

-----------------------------------------------------------------------------
(* JSON.stringify *)

\* of a string without characters that need escaping
JsonStr(s) == "\"" \o s \o "\""

\* of a string, number or boolean
JsonPrimString(v) ==
    IF Has(v, "s") THEN v.s
    ELSE IF Has(v, "n") THEN NumStr(v.n)
    ELSE BoolStr(v.b)

JsonPrim(v) ==
    IF Has(v, "s") THEN JsonStr(v.s)
    ELSE IF Has(v, "n") THEN NumStr(v.n)
    ELSE BoolStr(v.b)

JsonArray(strs) == "[" \o JoinStr(strs, ",") \o "]"

JsonObject(members) == "{" \o JoinStr(members, ",") \o "}"

JsonMember(k, json) == JsonStr(k) \o ":" \o json

\* of an array of enum values
JsonEnum(vals) == JsonArray([i \in 1..Len(vals) |-> JsonPrim(vals[i])])

\* of an array of {value, label} options
JsonOption(o) ==
    JsonObject(<<JsonMember("value", JsonPrim(o.value)),
                 JsonMember("label", JsonStr(o.label))>>)

JsonOneOf(opts) == JsonArray([i \in 1..Len(opts) |-> JsonOption(opts[i])])

-----------------------------------------------------------------------------
(* buildSchema.ts *)

mapHtmlTypeToSchemaType(f) ==
    IF ~Has(f, "type") THEN "string"
    ELSE IF f.type \in {"number", "range"} THEN "number"
    ELSE IF f.type = "checkbox" THEN "boolean"
    ELSE "string"

CompareByName(a, b) == LocaleCompare(a.name, b.name)

\* const sortedFields = [...fields].sort((a, b) => a.name.localeCompare(b.name))
SortFields(fields) ==
    ArraySort(fields, [j \in 1..Len(fields) |-> [i \in 1..Len(fields) |->
                          CompareByName(fields[j], fields[i])]])

\* the JSONSchemaProperty built for one field (body of the for loop)
BuildProperty(field) ==
    ("type" :> mapHtmlTypeToSchemaType(field))
    @@ Opt(Has(field, "title") /\ field.title # "", "title", field.title)
    @@ Opt(Has(field, "description") /\ field.description # "",
           "description", field.description)
    @@ Opt(Has(field, "min"), "minimum", field.min)
    @@ Opt(Has(field, "max"), "maximum", field.max)
    @@ Opt(Has(field, "minLength"), "minLength", field.minLength)
    @@ Opt(Has(field, "maxLength"), "maxLength", field.maxLength)
    @@ Opt(Has(field, "pattern") /\ field.pattern # "", "pattern", field.pattern)
    @@ Opt(Has(field, "enumValues") /\ Len(field.enumValues) > 0,
           "enum", field.enumValues)
    @@ Opt(Has(field, "oneOf") /\ Len(field.oneOf) > 0, "oneOf",
           [i \in 1..Len(field.oneOf) |->
               [const |-> field.oneOf[i].value, title |-> field.oneOf[i].label]])

IsRequired(field) == Has(field, "required") /\ field.required

\* properties[field.name] = prop, for the fields in sorted order
RECURSIVE BuildProperties(_, _)
BuildProperties(sorted, properties) ==
    IF sorted = <<>> THEN properties
    ELSE BuildProperties(Tail(sorted),
            ObjSet(properties, Head(sorted).name, BuildProperty(Head(sorted))))

\* required.push(field.name), for the fields in sorted order
RequiredNames(sorted) ==
    LET Name(f) == IF IsRequired(f) THEN <<f.name>> ELSE <<>>
    IN  Flatten([i \in 1..Len(sorted) |-> Name(sorted[i])])

\* required.sort()
SortRequired(required) ==
    ArraySort(required, [j \in 1..Len(required) |-> [i \in 1..Len(required) |->
                            CodeUnitCompare(required[j], required[i])]])

\* the result of a call that returned no schema
NoSchema == [type |-> "none"]

\* a compiler that rejects a list with a repeated name, returning no schema
buildInputSchemaUnique(fields) ==
    IF Cardinality({fields[i].name : i \in 1..Len(fields)}) < Len(fields)
    THEN NoSchema
    ELSE LET sortedFields == SortFields(fields)
             properties == BuildProperties(sortedFields, <<>>)
             required == RequiredNames(sortedFields)
         IN  [type |-> "object", properties |-> properties]
             @@ Opt(Len(required) > 0, "required", SortRequired(required))

buildInputSchema(fields) ==
    LET sortedFields == SortFields(fields)
        properties == BuildProperties(sortedFields, <<>>)
        required == RequiredNames(sortedFields)
    IN  [type |-> "object", properties |-> properties]
        @@ Opt(Len(required) > 0, "required", SortRequired(required))

\* JSON.stringify of a schema property and of a schema
JsonConst(c) ==
    JsonObject(<<JsonMember("const", JsonPrim(c.const)),
                 JsonMember("title", JsonStr(c.title))>>)

JsonProperty(p) ==
    JsonObject(
        <<JsonMember("type", JsonStr(p.type))>>
        \o (IF Has(p, "title") THEN <<JsonMember("title", JsonStr(p.title))>> ELSE <<>>)
        \o (IF Has(p, "description")
            THEN <<JsonMember("description", JsonStr(p.description))>> ELSE <<>>)
        \o (IF Has(p, "minimum") THEN <<JsonMember("minimum", NumStr(p.minimum))>> ELSE <<>>)
        \o (IF Has(p, "maximum") THEN <<JsonMember("maximum", NumStr(p.maximum))>> ELSE <<>>)
        \o (IF Has(p, "minLength")
            THEN <<JsonMember("minLength", NumStr(p.minLength))>> ELSE <<>>)
        \o (IF Has(p, "maxLength")
            THEN <<JsonMember("maxLength", NumStr(p.maxLength))>> ELSE <<>>)
        \o (IF Has(p, "pattern") THEN <<JsonMember("pattern", JsonStr(p.pattern))>> ELSE <<>>)
        \o (IF Has(p, "enum") THEN <<JsonMember("enum", JsonEnum(p.enum))>> ELSE <<>>)
        \o (IF Has(p, "oneOf")
            THEN <<JsonMember("oneOf",
                     JsonArray([i \in 1..Len(p.oneOf) |-> JsonConst(p.oneOf[i])]))>>
            ELSE <<>>))

JsonSchema(schema) ==
    JsonObject(
        <<JsonMember("type", JsonStr(schema.type)),
          JsonMember("properties",
              JsonObject([i \in 1..Len(schema.properties) |->
                  JsonMember(schema.properties[i].key,
                             JsonProperty(schema.properties[i].value))]))>>
        \o (IF Has(schema, "required")
            THEN <<JsonMember("required",
                     JsonArray([i \in 1..Len(schema.required) |->
                                    JsonStr(schema.required[i])]))>>
            ELSE <<>>))

-----------------------------------------------------------------------------
(* validateSchema.ts *)

Quoted(s) == "\"" \o s \o "\""

\* the issues the loop body pushes for one field, given the names seen so far
FieldIssues(field, seen) ==
    LET schemaType == mapHtmlTypeToSchemaType(field)
        EnumIssue(val) ==
            LET valType == IF Has(val, "s") THEN "string"
                           ELSE IF Has(val, "n") THEN "number" ELSE "boolean"
                Msg(t, article) ==
                    "Field " \o Quoted(field.name) \o ": enum value "
                        \o JsonPrim(val) \o " is not " \o article \o " " \o t \o "."
            IN  (IF schemaType = "string" /\ valType # "string"
                 THEN <<Msg("string", "a")>> ELSE <<>>)
                \o (IF schemaType = "number" /\ valType # "number"
                    THEN <<Msg("number", "a")>> ELSE <<>>)
                \o (IF schemaType = "boolean" /\ valType # "boolean"
                    THEN <<Msg("boolean", "a")>> ELSE <<>>)
    IN  (IF field.name \in seen
         THEN <<"Duplicate field name " \o Quoted(field.name) \o ".">> ELSE <<>>)
        \o (IF Has(field, "pattern") /\ schemaType # "string"
            THEN <<"Field " \o Quoted(field.name)
                    \o ": pattern is only valid for string types, but type is "
                    \o Quoted(schemaType) \o ".">>
            ELSE <<>>)
        \o (IF (Has(field, "min") \/ Has(field, "max")) /\ schemaType # "number"
            THEN <<"Field " \o Quoted(field.name)
                    \o ": min/max are only valid for number types, but type is "
                    \o Quoted(schemaType) \o ".">>
            ELSE <<>>)
        \o (IF (Has(field, "minLength") \/ Has(field, "maxLength"))
                 /\ schemaType # "string"
            THEN <<"Field " \o Quoted(field.name)
                    \o ": minLength/maxLength are only valid for string types, but type is "
                    \o Quoted(schemaType) \o ".">>
            ELSE <<>>)
        \o (IF Has(field, "enumValues") /\ Len(field.enumValues) > 0
            THEN Flatten([i \in 1..Len(field.enumValues) |->
                             EnumIssue(field.enumValues[i])])
            ELSE <<>>)

\* for (const field of fields) { ... seen.add(field.name) ... }
RECURSIVE AccumulateIssuesUntilFound(_, _)
AccumulateIssuesUntilFound(fields, seen) ==
    IF fields = <<>> THEN <<>>
    ELSE IF FieldIssues(Head(fields), seen) # <<>>
    THEN SubSeq(FieldIssues(Head(fields), seen), 1, 1)
    ELSE AccumulateIssuesUntilFound(Tail(fields), seen \cup {Head(fields).name})

RECURSIVE AccumulateIssuesAddFirst(_, _)
AccumulateIssuesAddFirst(fields, seen) ==
    IF fields = <<>> THEN <<>>
    ELSE FieldIssues(Head(fields), seen \cup {Head(fields).name})
            \o AccumulateIssuesAddFirst(Tail(fields), seen \cup {Head(fields).name})

RECURSIVE AccumulateIssues(_, _)
AccumulateIssues(fields, seen) ==
    IF fields = <<>> THEN <<>>
    ELSE FieldIssues(Head(fields), seen)
            \o AccumulateIssues(Tail(fields), seen \cup {Head(fields).name})

LibPrefix == "[react-webmcp] "

NoError == "(no error)"

\* for (const issue of issues): throwing on the last issue instead of the first
ReportIssuesLast(issues, strict) ==
    IF issues = <<>> THEN [warnings |-> <<>>, thrown |-> NoError]
    ELSE IF strict
    THEN [warnings |-> <<>>, thrown |-> LibPrefix \o issues[Len(issues)]]
    ELSE [warnings |-> [i \in 1..Len(issues) |-> LibPrefix \o issues[i]],
          thrown |-> NoError]

\* for (const issue of issues) { if (strict) throw ...; console.warn(...) }
ReportIssues(issues, strict) ==
    IF issues = <<>> THEN [warnings |-> <<>>, thrown |-> NoError]
    ELSE IF strict THEN [warnings |-> <<>>, thrown |-> LibPrefix \o issues[1]]
    ELSE [warnings |-> [i \in 1..Len(issues) |-> LibPrefix \o issues[i]],
          thrown |-> NoError]

\* validateSchema(fields, options) under NODE_ENV: the issues accumulated,
\* the console.warn calls made and the message of the Error thrown
validateSchemaAlways(fields, options, production) ==
    LET strict == IF Has(options, "strict") THEN options.strict ELSE FALSE
        issues == AccumulateIssues(fields, {})
    IN  [issues |-> issues] @@ ReportIssues(issues, strict)

validateSchema(fields, options, production) ==
    IF production
    THEN [issues |-> <<>>, warnings |-> <<>>, thrown |-> NoError]
    ELSE LET strict == IF Has(options, "strict") THEN options.strict ELSE FALSE
             issues == AccumulateIssues(fields, {})
         IN  [issues |-> issues] @@ ReportIssues(issues, strict)

-----------------------------------------------------------------------------
(* Field fingerprints: fieldFingerprint of useRegisterField.ts and          *)
(* fieldsFingerprint of useSchemaCollector.ts build the same template       *)
(* string for one field.                                                    *)

\* `${f.name}::${f.type ?? ""}::${f.required ?? ""}:: ... ::${f.pattern ?? ""}`
fieldFingerprint(f) ==
    JoinStr(<<f.name,
              IF Has(f, "type") THEN f.type ELSE "",
              IF Has(f, "required") THEN BoolStr(f.required) ELSE "",
              IF Has(f, "title") THEN f.title ELSE "",
              IF Has(f, "description") THEN f.description ELSE "",
              JsonEnum(IF Has(f, "enumValues") THEN f.enumValues ELSE <<>>),
              JsonOneOf(IF Has(f, "oneOf") THEN f.oneOf ELSE <<>>),
              IF Has(f, "min") THEN NumStr(f.min) ELSE "",
              IF Has(f, "max") THEN NumStr(f.max) ELSE "",
              IF Has(f, "minLength") THEN NumStr(f.minLength) ELSE "",
              IF Has(f, "maxLength") THEN NumStr(f.maxLength) ELSE "",
              IF Has(f, "pattern") THEN f.pattern ELSE "">>, "::")

\* fields.map((f) => `...`).join("|")
fieldsFingerprint(fields) ==
    JoinStr([i \in 1..Len(fields) |-> fieldFingerprint(fields[i])], "|")

-----------------------------------------------------------------------------
(* useRegisterField *)

\* useContext(ToolContext) without a provider above
NoContext == "null"

NoContextWarning(field) ==
    LibPrefix \o "useRegisterField: no WebMCP.Tool context found for field "
        \o Quoted(field.name)
        \o ". Wrap this component in a <WebMCP.Tool> to register fields."

\* an effect body that calls ctx.registerField without testing ctx: the call
\* on null throws
RunEffectNoGuard(ctx, production, field) ==
    IF ctx = NoContext
    THEN [calls |-> <<>>, warnings |-> <<>>, cleanup |-> FALSE, thrown |-> TRUE]
    ELSE [calls |-> <<[op |-> "registerField", arg |-> field]>>,
          warnings |-> <<>>, cleanup |-> TRUE, thrown |-> FALSE]

\* the effect body: its ctx calls, its console.warn calls, whether it
\* returns a cleanup, and whether it threw
RunEffect(ctx, production, field) ==
    IF ctx = NoContext
    THEN [calls |-> <<>>,
          warnings |-> IF production THEN <<>> ELSE <<NoContextWarning(field)>>,
          cleanup |-> FALSE, thrown |-> FALSE]
    ELSE [calls |-> <<[op |-> "registerField", arg |-> field]>>,
          warnings |-> <<>>, cleanup |-> TRUE, thrown |-> FALSE]

\* the cleanup the effect returned, if any: ctx.unregisterField(field.name)
\* with the field the effect captured
RunCleanup(effect) ==
    IF effect.cleanup
    THEN <<[op |-> "unregisterField", arg |-> effect.field.name]>>
    ELSE <<>>

\* an effect without a dependency array runs after every render
DepsAlwaysChanged(prev, next) == TRUE

\* [fp] compared with the dependency of the previous render
DepsChanged(prev, next) == prev # next

-----------------------------------------------------------------------------
(* useWebMCPTool.  A config is a record with name, description,            *)
(* inputSchema, execute (the identity of the handler) and, when given,      *)
(* outputSchema and annotations; annotations is an object in key order, a  *)
(* sequence of [key, value] entries.                                       *)

\* JSON.stringify of an annotations object
JsonAnnotations(a) ==
    JsonObject([i \in 1..Len(a) |-> JsonMember(a[i].key, BoolStr(a[i].value))])

\* `${name}::${description}::${JSON.stringify(inputSchema)}::...`
toolFingerprint(config) ==
    JoinStr(<<config.name,
              config.description,
              JsonSchema(config.inputSchema),
              IF Has(config, "outputSchema") THEN JsonSchema(config.outputSchema)
              ELSE "{}",
              IF Has(config, "annotations") THEN JsonAnnotations(config.annotations)
              ELSE "{}">>, "::")

\* [fingerprint, config.name]
ToolDeps(config) == <<toolFingerprint(config), config.name>>

\* the object handed to registerTool; its execute closes over configRef and
\* over the config of the render whose effect built it
ToolDef(config) ==
    [name |-> config.name,
     description |-> config.description,
     inputSchema |-> config.inputSchema,
     execute |-> [captured |-> config.execute]]
    @@ Opt(Has(config, "outputSchema"), "outputSchema", config.outputSchema)
    @@ Opt(Has(config, "annotations"), "annotations", config.annotations)

\* an execute wrapper that calls the handler of the render that built it
DelegateCaptured(current, toolDef) == toolDef.execute.captured

\* (input) => configRef.current.execute(input): the handler called
Delegate(current, toolDef) == current.execute

\* mc.unregisterTool(name) on the registered tool definitions (a name that
\* is not registered throws, which every caller catches)
UnregisterTool(registry, name) == {d \in registry : d.name # name}

\* a cleanup that leaves the tool registered
ToolCleanupNone(registry, effect) == [calls |-> <<>>, registry |-> registry]

\* the cleanup the effect returned, if any: mc.unregisterTool(config.name)
\* with the config the effect captured
ToolCleanup(registry, effect) ==
    IF effect.cleanup
    THEN [calls |-> <<[op |-> "unregisterTool", arg |-> effect.config.name]>>,
          registry |-> UnregisterTool(registry, effect.config.name)]
    ELSE [calls |-> <<>>, registry |-> registry]

\* the effect body, with mc the availability of navigator.modelContext, ref
\* the value of registeredNameRef.current and accepts whether
\* mc.registerTool returns rather than throws
ToolEffect(mc, registry, ref, config, accepts) ==
    IF ~mc
    THEN [calls |-> <<>>, registry |-> registry, ref |-> ref,
          errors |-> <<"warn">>, cleanup |-> FALSE]
    ELSE LET stale == ref # "" /\ ref # config.name
             before == IF stale THEN UnregisterTool(registry, ref) ELSE registry
         IN  [calls |-> (IF stale THEN <<[op |-> "unregisterTool", arg |-> ref]>>
                         ELSE <<>>)
                        \o <<[op |-> "registerTool", arg |-> ToolDef(config)]>>,
              registry |-> IF accepts THEN before \cup {ToolDef(config)} ELSE before,
              ref |-> IF accepts THEN config.name ELSE ref,
              errors |-> IF accepts THEN <<>> ELSE <<"error">>,
              cleanup |-> TRUE]

-----------------------------------------------------------------------------
(* extractFields.ts.  A node is an element [props |-> ...], whose          *)
(* props.children, when present, is a sequence of nodes, or a text node    *)
(* [text |-> ...].                                                         *)

isValidElement(node) == Has(node, "props")

\* typeof props.children === "string": a single text child
ChildrenIsString(props) ==
    /\ Has(props, "children")
    /\ Len(props.children) = 1
    /\ Has(props.children[1], "text")

\* if (props.children): children that are present and not the empty string
ChildrenTruthy(props) ==
    /\ Has(props, "children")
    /\ ~(ChildrenIsString(props) /\ props.children[1].text = "")

RECURSIVE extractOptions(_)
extractOptions(children) ==
    LET OfChild(child) ==
            IF ~isValidElement(child) THEN <<>>
            ELSE LET props == child.props
                 IN  (IF Has(props, "value")
                      THEN <<[value |-> props.value,
                              label |-> IF ChildrenIsString(props)
                                        THEN props.children[1].text
                                        ELSE IF Has(props.value, "s") THEN props.value.s
                                        ELSE IF Has(props.value, "n") THEN NumStr(props.value.n)
                                        ELSE BoolStr(props.value.b)]>>
                      ELSE <<>>)
                     \o (IF ChildrenTruthy(props)
                         THEN extractOptions(props.children) ELSE <<>>)
    IN  Flatten([i \in 1..Len(children) |-> OfChild(children[i])])

\* props.name ?? inputProps?.name ?? slotInput?.name ("" when all are
\* undefined; the empty string is falsy like undefined in if (name))
ElementName(props) ==
    IF Has(props, "name") THEN props.name
    ELSE IF Has(props, "inputProps") /\ Has(props.inputProps, "name")
    THEN props.inputProps.name
    ELSE IF Has(props, "slotProps") /\ Has(props.slotProps, "input")
            /\ Has(props.slotProps.input, "name")
    THEN props.slotProps.input.name
    ELSE ""

\* Boolean(v) and Number(v) of a prop given as a boolean, a number or a
\* string (an attribute written min="5")
ToBoolean(v) ==
    IF Has(v, "b") THEN v.b ELSE IF Has(v, "n") THEN v.n # 0 ELSE v.s # ""

ToNumber(v) ==
    IF Has(v, "n") THEN v.n
    ELSE IF Has(v, "b") THEN (IF v.b THEN 1 ELSE 0)
    ELSE CASE v.s = "" -> 0 [] v.s = "0" -> 0 [] v.s = "1" -> 1 [] v.s = "5" -> 5

\* the FieldDefinition built from a named element
ElementField(props, name) ==
    LET options == IF ChildrenTruthy(props) THEN extractOptions(props.children) ELSE <<>>
    IN  ("name" :> name)
        @@ Opt(Has(props, "type"), "type", props.type)
        @@ Opt(Has(props, "required"), "required", ToBoolean(props.required))
        @@ Opt(Has(props, "min"), "min", ToNumber(props.min))
        @@ Opt(Has(props, "max"), "max", ToNumber(props.max))
        @@ Opt(Has(props, "minLength"), "minLength", ToNumber(props.minLength))
        @@ Opt(Has(props, "maxLength"), "maxLength", ToNumber(props.maxLength))
        @@ Opt(Has(props, "pattern"), "pattern", props.pattern)
        @@ Opt(Len(options) > 0, "enumValues",
               [i \in 1..Len(options) |-> options[i].value])
        @@ Opt(Len(options) > 0, "oneOf", options)

RECURSIVE extractFields(_)
extractFields(children) ==
    LET OfChild(child) ==
            IF ~isValidElement(child) THEN <<>>
            ELSE LET props == child.props
                     name == ElementName(props)
                 IN  IF name # "" THEN <<ElementField(props, name)>>
                     ELSE IF ChildrenTruthy(props) THEN extractFields(props.children)
                     ELSE <<>>
    IN  Flatten([i \in 1..Len(children) |-> OfChild(children[i])])

-----------------------------------------------------------------------------
(* useSchemaCollector.ts *)

\* A Map in insertion order: set on an existing key keeps its place
MapHas(m, k) == \E i \in 1..Len(m) : m[i].key = k

MapGet(m, k) == m[CHOOSE i \in 1..Len(m) : m[i].key = k].value

MapSet(m, k, v) ==
    IF MapHas(m, k)
    THEN [i \in 1..Len(m) |-> IF m[i].key = k THEN [key |-> k, value |-> v] ELSE m[i]]
    ELSE Append(m, [key |-> k, value |-> v])

MapDelete(m, k) == SelectSeq(m, LAMBDA e : e.key # k)

MapValues(m) == [i \in 1..Len(m) |-> m[i].value]

MapKeys(m) == {m[i].key : i \in 1..Len(m)}

\* every key of the override whose value is not undefined replaces the base's
mergeFieldClobber(base, override) ==
    [k \in {"name"} \cup DOMAIN override |->
        IF k \in DOMAIN override THEN override[k] ELSE base[k]]

mergeField(base, override) ==
    [k \in DOMAIN base \cup DOMAIN override |->
        IF k \in DOMAIN override THEN override[k] ELSE base[k]]

\* { ...base, ...overrides }
SpreadOver(base, overrides) ==
    [k \in DOMAIN base \cup DOMAIN overrides |->
        IF k \in DOMAIN overrides THEN overrides[k] ELSE base[k]]

\* contextFieldsRef.current.set(field.name, field)
registerField(table, field) == MapSet(table, field.name, field)

\* contextFieldsRef.current.delete(name)
unregisterFieldSplice(table, name) ==
    IF MapHas(table, name) THEN MapDelete(table, name)
    ELSE SubSeq(table, 1, Len(table) - 1)

unregisterField(table, name) == MapDelete(table, name)

\* the fields prop: undefined (ref 0), or an object, identified by its ref
\* (1 or 2), whose Object.entries are entries
NoFieldsProp == [ref |-> 0, entries |-> <<>>]

\* 1. for (const field of childrenFields) fieldMap.set(field.name, field)
RECURSIVE MergeChildren(_, _)
MergeChildren(fieldMap, childrenFields) ==
    IF childrenFields = <<>> THEN fieldMap
    ELSE MergeChildren(MapSet(fieldMap, Head(childrenFields).name, Head(childrenFields)),
                       Tail(childrenFields))

\* a loop over the fields prop that ends after its first entry
MergeFieldsPropFirst(fieldMap, entries) ==
    IF entries = <<>> THEN fieldMap
    ELSE LET name == Head(entries).key
             overrides == Head(entries).value
         IN  MapSet(fieldMap, name,
                    IF MapHas(fieldMap, name)
                    THEN mergeField(MapGet(fieldMap, name), overrides)
                    ELSE SpreadOver([name |-> name], overrides))

\* 2. for (const [name, overrides] of Object.entries(fieldsProp))
RECURSIVE MergeFieldsProp(_, _)
MergeFieldsProp(fieldMap, entries) ==
    IF entries = <<>> THEN fieldMap
    ELSE LET name == Head(entries).key
             overrides == Head(entries).value
         IN  MergeFieldsProp(
                 MapSet(fieldMap, name,
                        IF MapHas(fieldMap, name)
                        THEN mergeField(MapGet(fieldMap, name), overrides)
                        ELSE SpreadOver([name |-> name], overrides)),
                 Tail(entries))

\* 3. for (const [name, field] of contextFieldsRef.current)
RECURSIVE MergeContext(_, _)
MergeContext(fieldMap, table) ==
    IF table = <<>> THEN fieldMap
    ELSE LET name == Head(table).key
             field == Head(table).value
         IN  MergeContext(
                 MapSet(fieldMap, name,
                        IF MapHas(fieldMap, name)
                        THEN mergeField(MapGet(fieldMap, name), field)
                        ELSE field),
                 Tail(table))

\* the body of the merged useMemo, up to Array.from(fieldMap.values())
ComputeMergedPropLast(childrenFields, fieldsProp, table) ==
    MapValues(
        MergeFieldsProp(
            MergeContext(MergeChildren(<<>>, childrenFields), table),
            fieldsProp.entries))

ComputeMerged(childrenFields, fieldsProp, table) ==
    MapValues(
        MergeContext(
            MergeFieldsProp(MergeChildren(<<>>, childrenFields), fieldsProp.entries),
            table))

-----------------------------------------------------------------------------
(* WebMCPField.tsx *)

\* the field WebMCPField hands to useRegisterField: { name, ...rest }, with
\* the options of its children when neither enumValues nor oneOf was given
WebMCPField(props) ==
    LET field == [k \in DOMAIN props \ {"children"} |-> props[k]]
        options == IF Has(props, "children") THEN extractOptions(props.children)
                   ELSE <<>>
    IN  IF ~Has(field, "enumValues") /\ ~Has(field, "oneOf") /\ Len(options) > 0
        THEN [k \in DOMAIN field \cup {"enumValues", "oneOf"} |->
                 IF k = "enumValues" THEN [i \in 1..Len(options) |-> options[i].value]
                 ELSE IF k = "oneOf" THEN options
                 ELSE field[k]]
        ELSE field

-----------------------------------------------------------------------------
(* Each specification below exercises one part of the engine and leaves    *)
(* the variables of the other parts in their idle state.                   *)


BuildIdle ==
    /\ bFields = <<>>
    /\ bSchema = NoSchema
    /\ bJson = ""
    /\ bPc = "idle"

ValidateIdle ==
    /\ vFields = <<>>
    /\ vOptions = EmptyObj
    /\ vProduction = FALSE
    /\ vIssues = <<>>
    /\ vWarnings = <<>>
    /\ vThrown = NoError
    /\ vPc = "idle"

FingerprintIdle ==
    /\ fListA = <<>>
    /\ fListB = <<>>
    /\ fPrintA = ""
    /\ fPrintB = ""
    /\ fPc = "idle"

MergeIdle ==
    /\ mChildren = <<>>
    /\ mFieldsProp = NoFieldsProp
    /\ mFieldProps = <<>>
    /\ mTable = <<>>
    /\ mExtracted = <<>>
    /\ mMerged = <<>>
    /\ mWarnings = <<>>
    /\ mSchemaDep = ""
    /\ mSchema = NoSchema
    /\ mPc = "idle"

NoField == EmptyObj

NoEffect == [field |-> NoField, cleanup |-> FALSE]

RegisterIdle ==
    /\ rCtx = NoContext
    /\ rProduction = FALSE
    /\ rPc = "idle"
    /\ rField = NoField
    /\ rDeps = ""
    /\ rEffect = NoEffect
    /\ rCalls = <<>>
    /\ rWarnings = <<>>

NoConfig == EmptyObj

NoInvocation == [handler |-> "", input |-> ""]

ToolIdle ==
    /\ tMc = FALSE
    /\ tPc = "idle"
    /\ tConfig = NoConfig
    /\ tDeps = <<>>
    /\ tRegisteredName = ""
    /\ tEffect = [config |-> NoConfig, cleanup |-> FALSE]
    /\ tRegistry = {}
    /\ tCalls = <<>>
    /\ tErrors = <<>>
    /\ tStep = ""
    /\ tInvoked = NoInvocation

Comps == {"c1", "c2"}

Unmounted == [mounted |-> FALSE, field |-> EmptyObj, effect |-> EmptyObj]

NoProps == [children |-> <<>>, fields |-> NoFieldsProp, options |-> EmptyObj]

NoDeps == [childrenFP |-> "", fieldsProp |-> NoFieldsProp, version |-> 0,
           strict |-> EmptyObj]

NoInputs == [children |-> <<>>, fields |-> <<>>, table |-> <<>>]

NoCalls == [absent |-> FALSE, registered |-> {}, renamed |-> FALSE]

HookIdle ==
    /\ hPc = "idle"
    /\ hProduction = FALSE
    /\ hProps = NoProps
    /\ contextFields = <<>>
    /\ version = 0
    /\ hMergedDeps = NoDeps
    /\ hMerged = <<>>
    /\ hSchemaDep = ""
    /\ hSchema = NoSchema
    /\ hMemoInputs = NoInputs
    /\ hRecomputed = [merged |-> FALSE, schema |-> FALSE]
    /\ hWarnings = <<>>
    /\ hThrown = NoError
    /\ comps = [c \in Comps |-> Unmounted]
    /\ hCalls = NoCalls

-----------------------------------------------------------------------------
(* Specification SpecValidate: validateSchema applied to a list of field   *)
(* definitions, with and without strict, in development and in production. *)

ValidateNames == {"email", "apple"}

ValidateShapes ==
    { EmptyObj,
      ("type" :> "number") @@ ("min" :> 0) @@ ("max" :> 5),
      ("type" :> "number") @@ ("pattern" :> "^x$"),
      ("min" :> 0),
      ("enumValues" :> <<[s |-> "one"], [n |-> 2]>>),
      ("type" :> "number") @@ ("maxLength" :> 1),
      ("type" :> "number") @@ ("enumValues" :> <<[s |-> "one"], [n |-> 2], [s |-> "two"]>>),
      ("type" :> "checkbox") @@ ("pattern" :> "^x$") @@ ("max" :> 5)
         @@ ("minLength" :> 1) @@ ("enumValues" :> <<[b |-> TRUE], [n |-> 2]>>) }

ValidateFieldPool ==
    {("name" :> n) @@ shape : n \in ValidateNames, shape \in ValidateShapes}

ValidateInit ==
    /\ BuildIdle
    /\ FingerprintIdle
    /\ HookIdle
    /\ MergeIdle
    /\ RegisterIdle
    /\ ToolIdle
    /\ vFields \in SeqsUpTo(ValidateFieldPool, MaxValidateFields)
    /\ vOptions \in {EmptyObj, "strict" :> FALSE, "strict" :> TRUE}
    /\ vProduction \in BOOLEAN
    /\ vIssues = <<>>
    /\ vWarnings = <<>>
    /\ vThrown = NoError
    /\ vPc = "input"

\* validateSchema(fields, options)
Validate ==
    /\ vPc = "input"
    /\ LET r == validateSchema(vFields, vOptions, vProduction)
       IN  /\ vIssues' = r.issues
           /\ vWarnings' = r.warnings
           /\ vThrown' = r.thrown
    /\ vPc' = "done"
    /\ UNCHANGED <<vFields, vOptions, vProduction, bvars, fvars, hvars, mvars, rvars, tvars>>

ValidateNext == Validate

SpecValidate == ValidateInit /\ [][ValidateNext]_vars

-----------------------------------------------------------------------------
(* Specification SpecBuild: buildInputSchema applied to a list of field    *)
(* definitions, then to rearrangements of that list.                       *)

BuildNames == {"10", "9", "apple", "Zulu"}

\* fields validateSchema reports issues for
BuildFlaggedFields ==
    { [name |-> "apple", type |-> "number", pattern |-> "^x$", maxLength |-> 1],
      [name |-> "Zulu", type |-> "checkbox", max |-> 5,
       enumValues |-> <<[s |-> "one"], [n |-> 2]>>,
       oneOf |-> <<[value |-> [s |-> "one"], label |-> "One"]>>] }

BuildFieldPool ==
    {("name" :> n) @@ t @@ r :
        n \in BuildNames,
        t \in {EmptyObj, "type" :> "number"},
        r \in {EmptyObj, "required" :> TRUE}}
      \cup BuildFlaggedFields

BuildInit ==
    /\ ValidateIdle
    /\ FingerprintIdle
    /\ HookIdle
    /\ MergeIdle
    /\ RegisterIdle
    /\ ToolIdle
    /\ bFields \in SeqsUpTo(BuildFieldPool, MaxBuildFields)
    /\ bSchema = NoSchema
    /\ bJson = ""
    /\ bPc = "input"

\* const schema = buildInputSchema(fields); JSON.stringify(schema)
\* a call of buildInputSchema ends by returning a schema or by raising;
\* a call that raised leaves no schema (NoSchema) and the position "threw"
Build ==
    /\ bPc = "input"
    /\ bSchema' = buildInputSchema(bFields)
    /\ bJson' = IF bSchema' = NoSchema THEN "" ELSE JsonSchema(bSchema')
    /\ bPc' = IF bSchema' = NoSchema THEN "threw" ELSE "built"
    /\ UNCHANGED <<bFields, vvars, fvars, hvars, mvars, rvars, tvars>>

Swap(s, i) ==
    [j \in 1..Len(s) |-> IF j = i THEN s[i + 1] ELSE IF j = i + 1 THEN s[i] ELSE s[j]]

\* the same fields in another order (two neighbours exchanged), compiled again
BuildPermuted ==
    /\ bPc = "built"
    /\ \E i \in 1..(Len(bFields) - 1) :
          /\ bFields' = Swap(bFields, i)
          /\ bSchema' = buildInputSchema(bFields')
          /\ bJson' = IF bSchema' = NoSchema THEN "" ELSE JsonSchema(bSchema')
          /\ bPc' = IF bSchema' = NoSchema THEN "threw" ELSE "built"
    /\ UNCHANGED <<vvars, fvars, hvars, mvars, rvars, tvars>>

BuildNext == Build \/ BuildPermuted

SpecBuild == BuildInit /\ [][BuildNext]_vars

-----------------------------------------------------------------------------
(* Specification SpecFingerprint: the fingerprints of two field lists, as  *)
(* a dependency array compares them, and of two single fields.             *)

FingerprintFieldPool ==
    { [name |-> "email"],
      [name |-> "email", required |-> FALSE],
      [name |-> "email", type |-> "number", required |-> TRUE],
      [name |-> "email", title |-> "To", description |-> "cc::bcc"],
      [name |-> "email", title |-> "To::cc", description |-> "bcc"],
      [name |-> "email", enumValues |-> <<[s |-> "1"]>>],
      [name |-> "email", enumValues |-> <<[n |-> 1]>>,
                         oneOf |-> <<[value |-> [n |-> 1], label |-> "One"]>>],
      [name |-> "apple", min |-> 1, maxLength |-> 1, pattern |-> "^x$"] }

FingerprintInit ==
    /\ BuildIdle
    /\ ValidateIdle
    /\ HookIdle
    /\ MergeIdle
    /\ RegisterIdle
    /\ ToolIdle
    /\ fListA \in SeqsUpTo(FingerprintFieldPool, MaxFingerprintFields)
    /\ fListB \in SeqsUpTo(FingerprintFieldPool, MaxFingerprintFields)
    /\ fPrintA = ""
    /\ fPrintB = ""
    /\ fPc = "input"

\* const fp = fieldFingerprint(field), for two single fields
FingerprintFields ==
    /\ fPc = "input"
    /\ Len(fListA) = 1 /\ Len(fListB) = 1
    /\ fPrintA' = fieldFingerprint(fListA[1])
    /\ fPrintB' = fieldFingerprint(fListB[1])
    /\ fPc' = "field"
    /\ UNCHANGED <<fListA, fListB, bvars, vvars, hvars, mvars, rvars, tvars>>

\* const childrenFP = fieldsFingerprint(childrenFields), for two lists
FingerprintLists ==
    /\ fPc = "input"
    /\ fPrintA' = fieldsFingerprint(fListA)
    /\ fPrintB' = fieldsFingerprint(fListB)
    /\ fPc' = "list"
    /\ UNCHANGED <<fListA, fListB, bvars, vvars, hvars, mvars, rvars, tvars>>

FingerprintNext == FingerprintFields \/ FingerprintLists

SpecFingerprint == FingerprintInit /\ [][FingerprintNext]_vars

-----------------------------------------------------------------------------
(* Specification Spec: one tool scope.  The component that calls           *)
(* useSchemaCollector renders with props chosen by its parent; components  *)
(* that call useRegisterField mount, re-render with another field and      *)
(* unmount under it.  The host runs one render, effect or cleanup at a     *)
(* time.                                                                   *)

El(props) == [props |-> props]

Txt(s) == [text |-> s]

EmailInput ==
    El([name |-> "email", type |-> "email", pattern |-> "^x$"])

HChildrenPool ==
    { <<El([children |-> <<Txt("To"), EmailInput>>])>>,
      <<El([name |-> "email", type |-> "number", required |-> [b |-> TRUE]]),
        El([inputProps |-> [name |-> "apple"], min |-> [s |-> "5"]])>> }

HFieldsEntriesPool ==
    { <<[key |-> "email", value |-> [description |-> "Recipient"]]>>,
      <<[key |-> "email",
         value |-> [description |-> "Prop", type |-> "text", required |-> TRUE]],
        [key |-> "Zulu", value |-> [type |-> "text"]]>> }

HOptionsPool == {EmptyObj, [strict |-> TRUE]}

RegisterPool ==
    { [name |-> "email", type |-> "number", required |-> FALSE,
       description |-> "Context override"],
      [name |-> "Zulu", type |-> "text", description |-> "Dynamic"] }

\* the fields prop a render may receive after prev: the same object, no
\* object, or a newly allocated object
FreshRef(prev) == IF prev.ref = 1 THEN 2 ELSE 1

FieldsPropChoices(prev) ==
    {prev, NoFieldsProp}
        \cup {[ref |-> FreshRef(prev), entries |-> e] : e \in HFieldsEntriesPool}

Init ==
    /\ BuildIdle
    /\ ValidateIdle
    /\ FingerprintIdle
    /\ MergeIdle
    /\ RegisterIdle
    /\ ToolIdle
    /\ hPc = "unmounted"
    /\ hProduction = FALSE
    /\ hProps = NoProps
    /\ contextFields = <<>>
    /\ version = 0
    /\ hMergedDeps = NoDeps
    /\ hMerged = <<>>
    /\ hSchemaDep = ""
    /\ hSchema = NoSchema
    /\ hMemoInputs = NoInputs
    /\ hRecomputed = [merged |-> FALSE, schema |-> FALSE]
    /\ hWarnings = <<>>
    /\ hThrown = NoError
    /\ comps = [c \in Comps |-> Unmounted]
    /\ hCalls = NoCalls

\* One render of useSchemaCollector({children, fields, strict}).
\* childrenFields is extractFields(children) and childrenFP its fingerprint;
\* computed is what the callback of the merged useMemo returns if it runs in
\* this render; computedFP and keptFP are fieldsFingerprint of computed and
\* of the list the memo holds.
RenderWith(children, fieldsProp, options, childrenFields, childrenFP, computed, computedFP, keptFP) ==
    LET first == hPc = "unmounted"
        deps == [childrenFP |-> childrenFP, fieldsProp |-> fieldsProp,
                 version |-> version, strict |-> options]
        runMerged == first \/ deps # hMergedDeps
        merged == IF runMerged THEN computed ELSE hMerged
        validation == IF runMerged /\ ~hProduction
                      THEN validateSchema(merged, options, hProduction)
                      ELSE [issues |-> <<>>, warnings |-> <<>>, thrown |-> NoError]
        mergedFP == IF runMerged THEN computedFP ELSE keptFP
        runSchema == first \/ mergedFP # hSchemaDep
    IN  /\ hProps' = [children |-> children, fields |-> fieldsProp, options |-> options]
        /\ hWarnings' = validation.warnings
        /\ hThrown' = validation.thrown
        /\ IF validation.thrown # NoError
           THEN /\ hPc' = "crashed"
                /\ hRecomputed' = [merged |-> TRUE, schema |-> FALSE]
                /\ UNCHANGED <<hMergedDeps, hMerged, hSchemaDep, hSchema, hMemoInputs>>
           ELSE /\ hPc' = "live"
                /\ hMergedDeps' = deps
                /\ hMerged' = merged
                /\ hMemoInputs' =
                      IF runMerged
                      THEN [children |-> childrenFields, fields |-> fieldsProp.entries,
                            table |-> contextFields]
                      ELSE hMemoInputs
                /\ hSchemaDep' = mergedFP
                /\ hSchema' = IF runSchema THEN buildInputSchema(merged) ELSE hSchema
                /\ hRecomputed' = [merged |-> runMerged, schema |-> runSchema]
        /\ hCalls' = [hCalls EXCEPT !.absent = FALSE]
        /\ UNCHANGED <<hProduction, contextFields, version, comps>>
        /\ UNCHANGED <<bvars, vvars, fvars, mvars, rvars, tvars>>

\* the component renders: first render, a re-render by its parent with props
\* of the parent's choice, or the re-render a setVersion call scheduled
Render ==
    /\ hPc \in {"unmounted", "live"}
    /\ LET keptFP == fieldsFingerprint(hMerged)
       IN  \E children \in HChildrenPool :
             LET childrenFields == extractFields(children)
                 childrenFP == fieldsFingerprint(childrenFields)
             IN  \E fieldsProp \in FieldsPropChoices(hProps.fields) :
                   LET computed == ComputeMerged(childrenFields, fieldsProp, contextFields)
                       computedFP == fieldsFingerprint(computed)
                   IN  \E options \in HOptionsPool :
                         RenderWith(children, fieldsProp, options, childrenFields,
                                    childrenFP, computed, computedFP, keptFP)

\* useRegisterField(field) in a component that mounts: the effect runs
\* ctx.registerField(field)
CompMount(c, field) ==
    /\ hPc = "live"
    /\ ~comps[c].mounted
    /\ version < MaxVersion
    /\ contextFields' = registerField(contextFields, field)
    /\ version' = version + 1
    /\ comps' = [comps EXCEPT ![c] = [mounted |-> TRUE, field |-> field, effect |-> field]]
    /\ hCalls' = [hCalls EXCEPT !.absent = FALSE,
                                !.registered = @ \cup {field.name}]
    /\ UNCHANGED <<hPc, hProduction, hProps, hMergedDeps, hMerged, hSchemaDep,
                   hSchema, hMemoInputs, hRecomputed, hWarnings, hThrown>>
    /\ UNCHANGED <<bvars, vvars, fvars, mvars, rvars, tvars>>

\* the component re-renders with another field object, its effect having
\* captured the field old: when the fingerprints differ, the cleanup of the
\* previous effect runs ctx.unregisterField(old.name), then the effect runs
\* ctx.registerField(field)
RerunEffect(table, old, field) ==
    registerField(unregisterField(table, old.name), field)

CompRerenderNoCleanup(c, field) ==
    /\ hPc = "live"
    /\ comps[c].mounted
    /\ IF fieldFingerprint(field) # fieldFingerprint(comps[c].effect)
       THEN /\ version + 2 <= MaxVersion
            /\ contextFields' = registerField(contextFields, field)
            /\ version' = version + 2
            /\ comps' = [comps EXCEPT ![c] =
                            [mounted |-> TRUE, field |-> field, effect |-> field]]
            /\ hCalls' = [absent |-> FALSE,
                          registered |-> hCalls.registered \cup {field.name},
                          renamed |-> hCalls.renamed
                                        \/ field.name # comps[c].effect.name]
       ELSE /\ comps' = [comps EXCEPT ![c].field = field]
            /\ UNCHANGED <<contextFields, version, hCalls>>
    /\ UNCHANGED <<hPc, hProduction, hProps, hMergedDeps, hMerged, hSchemaDep,
                   hSchema, hMemoInputs, hRecomputed, hWarnings, hThrown>>
    /\ UNCHANGED <<bvars, vvars, fvars, mvars, rvars, tvars>>

CompRerender(c, field) ==
    /\ hPc = "live"
    /\ comps[c].mounted
    /\ IF fieldFingerprint(field) # fieldFingerprint(comps[c].effect)
       THEN /\ version + 2 <= MaxVersion
            /\ contextFields' = RerunEffect(contextFields, comps[c].effect, field)
            /\ version' = version + 2
            /\ comps' = [comps EXCEPT ![c] =
                            [mounted |-> TRUE, field |-> field, effect |-> field]]
            /\ hCalls' = [absent |-> ~MapHas(contextFields, comps[c].effect.name),
                          registered |-> hCalls.registered \cup {field.name},
                          renamed |-> hCalls.renamed
                                        \/ field.name # comps[c].effect.name]
       ELSE /\ comps' = [comps EXCEPT ![c].field = field]
            /\ UNCHANGED <<contextFields, version, hCalls>>
    /\ UNCHANGED <<hPc, hProduction, hProps, hMergedDeps, hMerged, hSchemaDep,
                   hSchema, hMemoInputs, hRecomputed, hWarnings, hThrown>>
    /\ UNCHANGED <<bvars, vvars, fvars, mvars, rvars, tvars>>

\* the component unmounts: the cleanup of its latest effect runs
\* ctx.unregisterField(field.name) with the field that effect captured
CompUnmount(c) ==
    /\ hPc \in {"live", "crashed"}
    /\ comps[c].mounted
    /\ version < MaxVersion
    /\ contextFields' = unregisterField(contextFields, comps[c].effect.name)
    /\ version' = version + 1
    /\ comps' = [comps EXCEPT ![c] = Unmounted]
    /\ hCalls' = [hCalls EXCEPT !.absent = ~MapHas(contextFields, comps[c].effect.name)]
    /\ UNCHANGED <<hPc, hProduction, hProps, hMergedDeps, hMerged, hSchemaDep,
                   hSchema, hMemoInputs, hRecomputed, hWarnings, hThrown>>
    /\ UNCHANGED <<bvars, vvars, fvars, mvars, rvars, tvars>>

Mount == \E c \in Comps, field \in RegisterPool : CompMount(c, field)

Rerender == \E c \in Comps, field \in RegisterPool : CompRerender(c, field)

Unmount == \E c \in Comps : CompUnmount(c)

Next == Render \/ Mount \/ Rerender \/ Unmount

Spec == Init /\ [][Next]_vars

-----------------------------------------------------------------------------
(* Specification SpecMerge: one WebMCP.Tool scope rendered once from given  *)
(* children, fields prop and mounted WebMCP.Field components, then rendered *)
(* again with the fields prop or the registration table iterated in         *)
(* another order.                                                          *)

MaxMergeRegistered == 2

Option(value, label) == El([value |-> [s |-> value], children |-> <<Txt(label)>>])

LowHighOptions == <<Option("low", "Low"), Option("high", "High")>>

MChildrenPool ==
    { <<El([name |-> "email", inputProps |-> [name |-> "apple"]]),
        El([slotProps |-> [input |-> [name |-> "Zulu"]]])>>,
      <<El([name |-> "", inputProps |-> [name |-> "apple"]]),
        El([inputProps |-> [name |-> ""],
            slotProps |-> [input |-> [name |-> "Zulu"]]])>>,
      <<El([name |-> "apple", children |-> LowHighOptions])>>,
      <<El([children |-> <<Txt("To"), El([inputProps |-> [name |-> "email"]])>>])>>,
      <<El([name |-> "email", children |-> <<El([name |-> "Zulu"])>>]),
        Txt("or"),
        El([children |->
              <<El([children |-> <<El([inputProps |-> [name |-> "apple"]])>>]),
                El([name |-> "9"])>>])>> }

MFieldsEntriesPool ==
    { <<[key |-> "email", value |-> [description |-> "Recipient"]],
        [key |-> "Zulu", value |-> [type |-> "text"]]>>,
      <<[key |-> "email", value |-> [name |-> "apple"]]>>,
      <<[key |-> "", value |-> [type |-> "text"]]>>,
      <<[key |-> "apple", value |-> [enumValues |-> <<[s |-> "low"]>>]]>>,
      <<[key |-> "email", value |-> [title |-> "x::y", description |-> "z"]]>>,
      <<[key |-> "email", value |-> [title |-> "x", description |-> "y::z"]]>> }

\* props of WebMCP.Field components
MFieldPropsPool ==
    { [name |-> "email", type |-> "number", description |-> "Context override"],
      [name |-> "Zulu", children |-> LowHighOptions],
      [name |-> "apple", oneOf |-> <<[value |-> [s |-> "low"], label |-> "Low"]>>] }

\* contextFieldsRef.current after the components with these props mounted in
\* this order: each effect calls registerField(field.name, field)
RECURSIVE RegisterAll(_, _)
RegisterAll(table, fieldProps) ==
    IF fieldProps = <<>> THEN table
    ELSE RegisterAll(registerField(table, WebMCPField(Head(fieldProps))),
                     Tail(fieldProps))

MergeInit ==
    /\ BuildIdle
    /\ ValidateIdle
    /\ FingerprintIdle
    /\ HookIdle
    /\ RegisterIdle
    /\ ToolIdle
    /\ mChildren \in MChildrenPool
    /\ mFieldsProp \in {NoFieldsProp}
                        \cup {[ref |-> 1, entries |-> e] : e \in MFieldsEntriesPool}
    /\ mFieldProps \in SeqsUpTo(MFieldPropsPool, MaxMergeRegistered)
    /\ mTable = RegisterAll(<<>>, mFieldProps)
    /\ mExtracted = <<>>
    /\ mMerged = <<>>
    /\ mWarnings = <<>>
    /\ mSchemaDep = ""
    /\ mSchema = NoSchema
    /\ mPc = "input"

\* one render of useSchemaCollector (strict undefined, outside production)
\* from the given sources, after a change of the fields prop object or of
\* the version: childrenFields, the merged useMemo, which runs, and the
\* schema useMemo, which runs on the first render and when mergedFP changed
MergeRender(children, fieldsProp, table) ==
    LET childrenFields == extractFields(children)
        merged == ComputeMerged(childrenFields, fieldsProp, table)
        mergedFP == fieldsFingerprint(merged)
    IN  /\ mExtracted' = childrenFields
        /\ mMerged' = merged
        /\ mWarnings' = validateSchema(merged, EmptyObj, FALSE).warnings
        /\ mSchemaDep' = mergedFP
        /\ mSchema' = IF mPc = "input" \/ mergedFP # mSchemaDep
                      THEN buildInputSchema(merged)
                      ELSE mSchema

Merge ==
    /\ mPc = "input"
    /\ MergeRender(mChildren, mFieldsProp, mTable)
    /\ mPc' = "merged"
    /\ UNCHANGED <<mChildren, mFieldsProp, mFieldProps, mTable>>
    /\ UNCHANGED <<bvars, vvars, fvars, hvars, rvars, tvars>>

\* the same fields prop with two neighbouring entries enumerated in the other
\* order, rendered
ReorderFieldsProp ==
    /\ mPc \in {"merged", "reordered"}
    /\ \E i \in 1..(Len(mFieldsProp.entries) - 1) :
          /\ mFieldsProp' = [mFieldsProp EXCEPT !.entries = Swap(@, i)]
          /\ MergeRender(mChildren, mFieldsProp', mTable)
    /\ mPc' = "reordered"
    /\ UNCHANGED <<mChildren, mFieldProps, mTable>>
    /\ UNCHANGED <<bvars, vvars, fvars, hvars, rvars, tvars>>

\* the same registrations with two neighbouring entries of the table in the
\* other order (the components mounted in the other order), rendered
ReorderTable ==
    /\ mPc \in {"merged", "reordered"}
    /\ \E i \in 1..(Len(mTable) - 1) :
          /\ mTable' = Swap(mTable, i)
          /\ MergeRender(mChildren, mFieldsProp, mTable')
    /\ mPc' = "reordered"
    /\ UNCHANGED <<mChildren, mFieldsProp, mFieldProps>>
    /\ UNCHANGED <<bvars, vvars, fvars, hvars, rvars, tvars>>

\* the parent renders the scope with another fields prop object
RenderFieldsProp ==
    /\ mPc \in {"merged", "reordered"}
    /\ \E e \in MFieldsEntriesPool :
          /\ mFieldsProp' = [ref |-> FreshRef(mFieldsProp), entries |-> e]
          /\ MergeRender(mChildren, mFieldsProp', mTable)
    /\ mPc' = "merged"
    /\ UNCHANGED <<mChildren, mFieldProps, mTable>>
    /\ UNCHANGED <<bvars, vvars, fvars, hvars, rvars, tvars>>

MergeNext == Merge \/ ReorderFieldsProp \/ ReorderTable \/ RenderFieldsProp

SpecMerge == MergeInit /\ [][MergeNext]_vars

-----------------------------------------------------------------------------
(* Specification SpecRegister: one component calling useRegisterField      *)
(* mounts, re-renders with a field chosen by its parent and unmounts,      *)
(* under a ToolContext provider whose value records the calls (as the      *)
(* tests' vi.fn() pair does) or outside any provider.                      *)

RFieldPool ==
    { [name |-> "email", type |-> "email", required |-> TRUE,
       description |-> "Recipient"],
      [name |-> "email", type |-> "text"],
      [name |-> "orphan"],
      [name |-> "priority", enumValues |-> <<[s |-> "low"], [s |-> "high"]>>],
      [name |-> "email", title |-> "x::y", description |-> "z"],
      [name |-> "email", title |-> "x", description |-> "y::z"],
      [name |-> "Zulu", type |-> "number", min |-> 1, max |-> 5] }

RegisterInit ==
    /\ BuildIdle
    /\ ValidateIdle
    /\ FingerprintIdle
    /\ HookIdle
    /\ MergeIdle
    /\ ToolIdle
    /\ rCtx \in {NoContext, "provided"}
    /\ rProduction \in BOOLEAN
    /\ rPc = "unmounted"
    /\ rField = NoField
    /\ rDeps = ""
    /\ rEffect = NoEffect
    /\ rCalls = <<>>
    /\ rWarnings = <<>>

\* first render and the effect after it
RegMount ==
    /\ rPc = "unmounted"
    /\ \E field \in RFieldPool :
          LET run == RunEffect(rCtx, rProduction, field)
          IN  /\ rField' = field
              /\ rDeps' = fieldFingerprint(field)
              /\ rEffect' = [field |-> field, cleanup |-> run.cleanup]
              /\ rCalls' = run.calls
              /\ rWarnings' = run.warnings
              /\ rPc' = IF run.thrown THEN "crashed" ELSE "mounted"
    /\ UNCHANGED <<rCtx, rProduction>>
    /\ UNCHANGED <<bvars, vvars, fvars, hvars, mvars, tvars>>

\* a later render: when the dependency changed, the cleanup of the previous
\* effect run, then the effect
RegRerender ==
    /\ rPc = "mounted"
    /\ \E field \in RFieldPool :
          LET fp == fieldFingerprint(field)
              run == RunEffect(rCtx, rProduction, field)
          IN  /\ rField' = field
              /\ rDeps' = fp
              /\ IF DepsChanged(rDeps, fp)
                 THEN /\ rEffect' = [field |-> field, cleanup |-> run.cleanup]
                      /\ rCalls' = RunCleanup(rEffect) \o run.calls
                      /\ rWarnings' = run.warnings
                      /\ rPc' = IF run.thrown THEN "crashed" ELSE "mounted"
                 ELSE /\ rCalls' = <<>>
                      /\ rWarnings' = <<>>
                      /\ UNCHANGED <<rEffect, rPc>>
    /\ UNCHANGED <<rCtx, rProduction>>
    /\ UNCHANGED <<bvars, vvars, fvars, hvars, mvars, tvars>>

\* unmount: the cleanup of the latest effect run
RegUnmount ==
    /\ rPc = "mounted"
    /\ rCalls' = RunCleanup(rEffect)
    /\ rWarnings' = <<>>
    /\ rPc' = "unmounted"
    /\ rField' = NoField
    /\ rDeps' = ""
    /\ rEffect' = NoEffect
    /\ UNCHANGED <<rCtx, rProduction>>
    /\ UNCHANGED <<bvars, vvars, fvars, hvars, mvars, tvars>>

RegisterNext == RegMount \/ RegRerender \/ RegUnmount

SpecRegister == RegisterInit /\ [][RegisterNext]_vars

-----------------------------------------------------------------------------
(* Specification SpecTool: one component calling useWebMCPTool mounts,      *)
(* re-renders with a config chosen by its parent and unmounts, while the   *)
(* agent invokes the execute function of a registered tool.                *)

ToolSchemaPool ==
    { buildInputSchema(<<[name |-> "email"]>>),
      buildInputSchema(<<[name |-> "email", type |-> "number"]>>) }

ToolAnnotationsPool ==
    { <<>>,
      <<[key |-> "readOnlyHint", value |-> TRUE], [key |-> "cache", value |-> TRUE]>>,
      <<[key |-> "cache", value |-> TRUE], [key |-> "readOnlyHint", value |-> TRUE]>> }

\* createToolConfig() of the tests
BaseToolConfig ==
    [name |-> "test-tool", description |-> "A test tool",
     inputSchema |-> buildInputSchema(<<[name |-> "email"]>>),
     execute |-> "execute1"]

\* the base config and configs that differ from it in one or two members
ToolConfigPool ==
    { BaseToolConfig,
      [BaseToolConfig EXCEPT !.execute = "execute2"],
      [BaseToolConfig EXCEPT !.name = "tool-b"],
      [BaseToolConfig EXCEPT !.description = "Stable"] }
    \cup {[BaseToolConfig EXCEPT !.inputSchema = x] : x \in ToolSchemaPool}
    \cup {BaseToolConfig @@ ("outputSchema" :> x) : x \in ToolSchemaPool}
    \cup {BaseToolConfig @@ ("annotations" :> x) : x \in ToolAnnotationsPool}
    \cup {[BaseToolConfig EXCEPT !.execute = "execute2"] @@ ("annotations" :> <<>>)}

ToolInit ==
    /\ BuildIdle
    /\ ValidateIdle
    /\ FingerprintIdle
    /\ HookIdle
    /\ MergeIdle
    /\ RegisterIdle
    /\ tMc \in BOOLEAN
    /\ tPc = "unmounted"
    /\ tConfig = NoConfig
    /\ tDeps = <<>>
    /\ tRegisteredName = ""
    /\ tEffect = [config |-> NoConfig, cleanup |-> FALSE]
    /\ tRegistry = {}
    /\ tCalls = <<>>
    /\ tErrors = <<>>
    /\ tStep = ""
    /\ tInvoked = NoInvocation

\* first render and the effect after it
ToolMount ==
    /\ tPc = "unmounted"
    /\ \E config \in ToolConfigPool, accepts \in BOOLEAN :
          LET run == ToolEffect(tMc, tRegistry, tRegisteredName, config, accepts)
          IN  /\ tConfig' = config
              /\ tDeps' = ToolDeps(config)
              /\ tEffect' = [config |-> config, cleanup |-> run.cleanup]
              /\ tRegistry' = run.registry
              /\ tRegisteredName' = run.ref
              /\ tCalls' = run.calls
              /\ tErrors' = run.errors
    /\ tPc' = "mounted"
    /\ tStep' = "mount"
    /\ UNCHANGED <<tMc, tInvoked>>
    /\ UNCHANGED <<bvars, vvars, fvars, hvars, mvars, rvars>>

\* a later render: configRef.current = config; when a dependency changed,
\* the cleanup of the previous effect run (which also sets
\* registeredNameRef.current = null), then the effect
ToolRerender ==
    /\ tPc = "mounted"
    /\ \E config \in ToolConfigPool, accepts \in BOOLEAN :
          LET deps == ToolDeps(config)
              cleaned == ToolCleanup(tRegistry, tEffect)
              ref == IF tEffect.cleanup THEN "" ELSE tRegisteredName
              run == ToolEffect(tMc, cleaned.registry, ref, config, accepts)
          IN  /\ tConfig' = config
              /\ tDeps' = deps
              /\ IF deps # tDeps
                 THEN /\ tEffect' = [config |-> config, cleanup |-> run.cleanup]
                      /\ tRegistry' = run.registry
                      /\ tRegisteredName' = run.ref
                      /\ tCalls' = cleaned.calls \o run.calls
                      /\ tErrors' = run.errors
                 ELSE /\ tCalls' = <<>>
                      /\ tErrors' = <<>>
                      /\ UNCHANGED <<tEffect, tRegistry, tRegisteredName>>
    /\ tStep' = "render"
    /\ UNCHANGED <<tMc, tPc, tInvoked>>
    /\ UNCHANGED <<bvars, vvars, fvars, hvars, mvars, rvars>>

\* unmount: the cleanup of the latest effect run
ToolUnmount ==
    /\ tPc = "mounted"
    /\ LET cleaned == ToolCleanup(tRegistry, tEffect)
       IN  /\ tRegistry' = cleaned.registry
           /\ tCalls' = cleaned.calls
           /\ tRegisteredName' = IF tEffect.cleanup THEN "" ELSE tRegisteredName
    /\ tPc' = "unmounted"
    /\ tConfig' = NoConfig
    /\ tDeps' = <<>>
    /\ tEffect' = [config |-> NoConfig, cleanup |-> FALSE]
    /\ tErrors' = <<>>
    /\ tStep' = "unmount"
    /\ UNCHANGED <<tMc, tInvoked>>
    /\ UNCHANGED <<bvars, vvars, fvars, hvars, mvars, rvars>>

\* the agent calls the execute function of a registered tool definition
ToolInvoke ==
    /\ tPc = "mounted"
    /\ \E toolDef \in tRegistry, input \in {"hello", "world"} :
          tInvoked' = [handler |-> Delegate(tConfig, toolDef), input |-> input]
    /\ tCalls' = <<>>
    /\ tErrors' = <<>>
    /\ tStep' = "invoke"
    /\ UNCHANGED <<tMc, tPc, tConfig, tDeps, tRegisteredName, tEffect, tRegistry>>
    /\ UNCHANGED <<bvars, vvars, fvars, hvars, mvars, rvars>>

ToolNext == ToolMount \/ ToolRerender \/ ToolUnmount \/ ToolInvoke

SpecTool == ToolInit /\ [][ToolNext]_vars

-----------------------------------------------------------------------------
(* Properties of buildInputSchema, under SpecBuild *)

BuildInputNames == {bFields[i].name : i \in 1..Len(bFields)}

\* s is in ascending alphabetical order: dictionary (collation) order, the
\* order buildInputSchema sorts the fields by
Alphabetical(s) ==
    \A i, j \in 1..Len(s) : i < j => LocaleCompare(s[i], s[j]) <= 0

\* C1: for every list of field definitions, names not assumed distinct, and
\* every rearrangement of it, buildInputSchema returns schemas with the same
\* JSON serialization: compiling the list again after exchanging two
\* neighbours never changes JSON.stringify(schema).
C1_PermutationInvariant ==
    [][bPc = "built" /\ bPc' = "built" => bJson' = bJson]_vars

\* C8: the keys of schema.properties are exactly the names of the input
\* fields and are enumerated in ascending alphabetical order, for every
\* input order.
C8_KeysAlphabetical ==
    bPc = "built" =>
        LET keys == ObjKeys(bSchema.properties)
        IN  /\ Range(keys) = BuildInputNames
            /\ \A i, j \in 1..Len(keys) :
                  i < j => LocaleCompare(keys[i], keys[j]) < 0

\* C9: the schema has a required key iff some input field has required
\* true; when present it holds the names of the required fields sorted
\* alphabetically; the empty list compiles to {type: "object",
\* properties: {}} with no required key.
C9_RequiredSorted ==
    bPc = "built" =>
        LET req == {i \in 1..Len(bFields) : IsRequired(bFields[i])}
        IN  /\ Has(bSchema, "required") <=> req # {}
            /\ Has(bSchema, "required") =>
                  /\ Len(bSchema.required) = Cardinality(req)
                  /\ Range(bSchema.required) = {bFields[i].name : i \in req}
                  /\ Alphabetical(bSchema.required)
            /\ bFields = <<>> =>
                  bSchema = [type |-> "object", properties |-> <<>>]

\* C15: every call of buildInputSchema returns a schema, an object of type
\* "object" with one property per input name, also for lists with repeated
\* names, constraints that do not fit the type and enum values of another
\* type, none of which was validated.
C15_CompilerAlwaysReturns ==
    /\ bPc # "threw"
    /\ bPc = "built" =>
          /\ bSchema # NoSchema
          /\ bSchema.type = "object"
          /\ Range(ObjKeys(bSchema.properties)) = BuildInputNames

\* a list with a repeated name, a pattern on a number field and enum values
\* that are not booleans on a checkbox field has been compiled
C15_Witness ==
    /\ bPc = "built"
    /\ Len(bFields) = 3
    /\ bFields[1].name = bFields[3].name
    /\ \E i \in 1..3 : Has(bFields[i], "pattern") /\ bFields[i].type = "number"
    /\ \E i \in 1..3 : Has(bFields[i], "enumValues") /\ bFields[i].type = "checkbox"
    /\ bSchema.type = "object"

-----------------------------------------------------------------------------
(* Properties of validateSchema, under SpecValidate *)

StrictRequested == Has(vOptions, "strict") /\ vOptions.strict

\* The issues the five checks find on the i-th field of the list, in the
\* order duplicate name, pattern, min/max, minLength/maxLength, enum values
ExpectedIssuesAt(fields, i) ==
    LET f == fields[i]
        t == mapHtmlTypeToSchemaType(f)
        q == "\"" \o f.name \o "\""
        Mismatch(v) ==
            \/ t = "string" /\ ~Has(v, "s")
            \/ t = "number" /\ ~Has(v, "n")
            \/ t = "boolean" /\ ~Has(v, "b")
        EnumMsg(v) ==
            IF Mismatch(v)
            THEN <<"Field " \o q \o ": enum value " \o JsonPrim(v)
                     \o " is not a " \o t \o ".">>
            ELSE <<>>
    IN  (IF \E j \in 1..(i - 1) : fields[j].name = f.name
         THEN <<"Duplicate field name " \o q \o ".">> ELSE <<>>)
        \o (IF Has(f, "pattern") /\ t # "string"
            THEN <<"Field " \o q
                     \o ": pattern is only valid for string types, but type is \""
                     \o t \o "\".">>
            ELSE <<>>)
        \o (IF (Has(f, "min") \/ Has(f, "max")) /\ t # "number"
            THEN <<"Field " \o q
                     \o ": min/max are only valid for number types, but type is \""
                     \o t \o "\".">>
            ELSE <<>>)
        \o (IF (Has(f, "minLength") \/ Has(f, "maxLength")) /\ t # "string"
            THEN <<"Field " \o q
                     \o ": minLength/maxLength are only valid for string types, but type is \""
                     \o t \o "\".">>
            ELSE <<>>)
        \o (IF Has(f, "enumValues")
            THEN Flatten([e \in 1..Len(f.enumValues) |-> EnumMsg(f.enumValues[e])])
            ELSE <<>>)

FieldsWithIssues(fields) ==
    {i \in 1..Len(fields) : ExpectedIssuesAt(fields, i) # <<>>}

\* the first issue in accumulation order of a list that has one
ExpectedFirstIssue(fields) ==
    LET first == CHOOSE i \in FieldsWithIssues(fields) :
                    \A j \in FieldsWithIssues(fields) : i <= j
    IN  ExpectedIssuesAt(fields, first)[1]

\* C10: outside production, validateSchema with strict true on a list that
\* has an issue throws an Error whose message is "[react-webmcp] " followed
\* by the first issue in accumulation order and emits no warning; on a list
\* without issue it returns normally.
C10_StrictThrowsFirstIssue ==
    vPc = "done" /\ ~vProduction /\ StrictRequested =>
        IF FieldsWithIssues(vFields) # {}
        THEN /\ vThrown = "[react-webmcp] " \o ExpectedFirstIssue(vFields)
             /\ vWarnings = <<>>
        ELSE /\ vThrown = NoError
             /\ vWarnings = <<>>

\* a strict call has thrown on a list with issues on two fields, the first
\* of them with more than one issue
C10_Witness ==
    /\ vPc = "done" /\ ~vProduction /\ StrictRequested
    /\ Cardinality(FieldsWithIssues(vFields)) = 2
    /\ Len(ExpectedIssuesAt(vFields, 1)) > 1
    /\ vThrown # NoError

\* all the issues of a list, field by field
ExpectedIssues(fields) ==
    Flatten([i \in 1..Len(fields) |-> ExpectedIssuesAt(fields, i)])

\* C11: validateSchema without strict throws nothing; outside production it
\* emits one warning per issue of the list, "[react-webmcp] " followed by the
\* issue, in accumulation order, every check running on every field.
C11_WarnsEveryIssue ==
    vPc = "done" /\ ~StrictRequested =>
        /\ vThrown = NoError
        /\ Len(vWarnings) = Len(vIssues)
        /\ ~vProduction =>
              vWarnings = [i \in 1..Len(ExpectedIssues(vFields)) |->
                              "[react-webmcp] " \o ExpectedIssues(vFields)[i]]

\* a call without strict has warned about a first field with four issues and
\* a second field with a duplicate name and further issues
C11_Witness ==
    /\ vPc = "done" /\ ~StrictRequested /\ ~vProduction
    /\ Len(vFields) = 2
    /\ Len(ExpectedIssuesAt(vFields, 1)) >= 4
    /\ Len(ExpectedIssuesAt(vFields, 2)) >= 2
    /\ vFields[1].name = vFields[2].name
    /\ Len(vWarnings) >= 6

DuplicateMessages == {"Duplicate field name \"" \o n \o "\"." : n \in AllNames}

IsRepeat(fields, i) == \E j \in 1..(i - 1) : fields[j].name = fields[i].name

\* the positions, among the issues of a list, of the duplicate-name issues
DuplicateIssuesOf(issues) == {i \in 1..Len(issues) : issues[i] \in DuplicateMessages}

EnumTypes == {"string", "number", "boolean"}

EnumValuePool == {[s |-> "one"], [s |-> "two"], [n |-> 2], [b |-> TRUE]}

\* typeof val
TypeOf(v) == IF Has(v, "s") THEN "string" ELSE IF Has(v, "n") THEN "number" ELSE "boolean"

\* the literal of an enum value as JSON writes it
Literal(v) ==
    IF Has(v, "s") THEN "\"" \o v.s \o "\""
    ELSE IF Has(v, "n") THEN ToString(v.n)
    ELSE IF v.b THEN "true" ELSE "false"

EnumMessage(name, v, t) ==
    "Field \"" \o name \o "\": enum value " \o Literal(v) \o " is not a " \o t \o "."

EnumMessages ==
    {EnumMessage(n, v, t) : n \in AllNames, v \in EnumValuePool, t \in EnumTypes}

\* the enum issues expected for one field: one per value whose type is not
\* the compiled type of the field, in the order of the values
EnumIssuesExpected(f) ==
    IF ~Has(f, "enumValues") THEN <<>>
    ELSE LET t == mapHtmlTypeToSchemaType(f)
         IN  Flatten([e \in 1..Len(f.enumValues) |->
                        IF TypeOf(f.enumValues[e]) # t
                        THEN <<EnumMessage(f.name, f.enumValues[e], t)>>
                        ELSE <<>>])

\* C13: outside production, the enum issues accumulated are, field by field,
\* one issue per enum value whose runtime type differs from the compiled type
\* of the field, naming the literal, and none for a value of that type.
C13_OneIssuePerMismatchedEnumValue ==
    vPc = "done" /\ ~vProduction =>
        SelectSeq(vIssues, LAMBDA m : m \in EnumMessages)
            = Flatten([i \in 1..Len(vFields) |-> EnumIssuesExpected(vFields[i])])

\* a number field with the enum values "one", 2, "two" has yielded exactly
\* two issues, one for "one" and one for "two"
C13_Witness ==
    /\ vPc = "done" /\ ~vProduction
    /\ vFields = <<[name |-> "email", type |-> "number",
                     enumValues |-> <<[s |-> "one"], [n |-> 2], [s |-> "two"]>>]>>
    /\ vIssues = <<"Field \"email\": enum value \"one\" is not a number.",
                   "Field \"email\": enum value \"two\" is not a number.">>

\* C14: in production validateSchema scans nothing, warns about nothing and
\* throws nothing, whatever the list and the strict option.
C14_ProductionNoOp ==
    vPc = "done" /\ vProduction =>
        vIssues = <<>> /\ vWarnings = <<>> /\ vThrown = NoError

\* a strict call in production has returned on a list with a duplicate name
\* and mismatched constraints
C14_Witness ==
    /\ vPc = "done" /\ vProduction /\ StrictRequested
    /\ Len(vFields) = 2
    /\ IsRepeat(vFields, 2)
    /\ Len(ExpectedIssues(vFields)) >= 3
    /\ vThrown = NoError /\ vWarnings = <<>>

-----------------------------------------------------------------------------
(* Properties of the fingerprints, under SpecFingerprint *)

\* C4: two fields, or two field lists, have the same fingerprint string if
\* and only if they agree by deep value equality on every tracked attribute.
C4_FingerprintIffEqual ==
    fPc \in {"field", "list"} => (fPrintA = fPrintB <=> fListA = fListB)


-----------------------------------------------------------------------------
(* Properties of useSchemaCollector and useRegisterField, under Spec *)

FieldKeys ==
    {"name", "type", "required", "title", "description", "enumValues", "oneOf",
     "min", "max", "minLength", "maxLength", "pattern"}

\* the schema keyword a field attribute compiles to
Keyword(k) ==
    CASE k = "min" -> "minimum"
      [] k = "max" -> "maximum"
      [] k = "enumValues" -> "enum"
      [] OTHER -> k

\* the value of key k of object o as a list: empty when o[k] is undefined
Attr(o, k) == IF Has(o, k) THEN <<o[k]>> ELSE <<>>

\* the latest render completed and saw the registration table as it is now
Settled == hPc = "live" /\ hMergedDeps.version = version

\* what each of the three sources says about the name n (the empty object
\* when the source does not have the name)
ChildrenNow == extractFields(hProps.children)

ChildLayer(n) ==
    LET at == {i \in 1..Len(ChildrenNow) : ChildrenNow[i].name = n}
    IN  IF at = {} THEN EmptyObj
        ELSE ChildrenNow[CHOOSE i \in at : \A j \in at : j <= i]

PropLayer(n) ==
    IF ObjHas(hProps.fields.entries, n) THEN ObjGet(hProps.fields.entries, n)
    ELSE EmptyObj

ContextLayer(n) ==
    IF MapHas(contextFields, n) THEN MapGet(contextFields, n) ELSE EmptyObj

InChildren(n) == ChildLayer(n) # EmptyObj

InFieldsProp(n) == ObjHas(hProps.fields.entries, n)

InContext(n) == MapHas(contextFields, n)

MergedNames == {hMerged[i].name : i \in 1..Len(hMerged)}

MergedOf(n) == hMerged[CHOOSE i \in 1..Len(hMerged) : hMerged[i].name = n]

CompiledOf(n) == ObjGet(hSchema.properties, n)

CompiledRequired(n) == Has(hSchema, "required") /\ n \in Range(hSchema.required)

ExpectedAttr(n, k) ==
    IF Has(ContextLayer(n), k) THEN <<ContextLayer(n)[k]>>
    ELSE IF Has(PropLayer(n), k) THEN <<PropLayer(n)[k]>>
    ELSE Attr(ChildLayer(n), k)

SourcesOf(n) ==
    (IF InChildren(n) THEN {"children"} ELSE {})
        \cup (IF InFieldsProp(n) THEN {"fields"} ELSE {})
        \cup (IF InContext(n) THEN {"context"} ELSE {})

RenderStep == comps' = comps /\ version' = version

\* C5: a render whose three sources are value-equal to those the merged list
\* was last computed from (so their fingerprints are unchanged), with the same
\* strict option, recomputes neither the merged list nor the schema.
C5_NoRecomputeWhenUnchanged ==
    [][(/\ RenderStep
        /\ hPc = "live" /\ hPc' = "live"
        /\ extractFields(hProps'.children) = hMemoInputs.children
        /\ hProps'.fields.entries = hMemoInputs.fields
        /\ contextFields = hMemoInputs.table
        /\ hProps'.options = hMergedDeps.strict)
       => ~hRecomputed'.merged /\ ~hRecomputed'.schema]_vars

AllUnmounted == \A c \in Comps : ~comps[c].mounted

\* C6: a cleanup that calls unregisterField with a name the registration
\* table does not hold throws nothing and leaves the table (but for the
\* registerField call of the effect that follows it), the merged list and the
\* schema as they were; and the render its setVersion call schedules, with
\* the props of the previous render, returns a value-equal merged list and the
\* same schema without throwing.
C6_UnregisterAbsentIsNoOp ==
    [][/\ (~RenderStep /\ hCalls'.absent) =>
            /\ hMerged' = hMerged /\ hSchema' = hSchema
            /\ hThrown' = hThrown /\ hPc' = hPc
            /\ version' = version + 1 => contextFields' = contextFields
            /\ version' = version + 2 =>
                  \A c \in Comps : comps'[c] # comps[c] =>
                      contextFields' = registerField(contextFields, comps'[c].effect)
       /\ (/\ RenderStep
           /\ hCalls.absent
           /\ hPc = "live"
           /\ hMergedDeps.version + 1 = version
           /\ hProps' = hProps) =>
            /\ hPc' = "live" /\ hThrown' = NoError
            /\ hRecomputed'.merged /\ ~hRecomputed'.schema
            /\ hMerged' = hMerged /\ hSchema' = hSchema]_vars

\* a component has just unmounted after another one unregistered its name,
\* while a third name is registered and compiled into the schema
C6_Witness ==
    /\ hCalls.absent
    /\ hPc = "live"
    /\ hMergedDeps.version + 1 = version
    /\ contextFields # <<>>
    /\ hMerged # <<>>

\* C7: once every component that calls useRegisterField has unmounted, the
\* registration table is empty.
C7_TeardownEmptiesTable == AllUnmounted => contextFields = <<>>

\* all components have unmounted after registering both names, one of them
\* having re-run its effect under another name
C7_Witness ==
    /\ AllUnmounted
    /\ hCalls.registered = {"email", "Zulu"}
    /\ hCalls.renamed
    /\ contextFields = <<>>


-----------------------------------------------------------------------------
(* Properties of the merge, under SpecMerge *)

Rendered == mPc \in {"merged", "reordered"}

NamesOf(fields) == {fields[i].name : i \in 1..Len(fields)}

FieldsPropKeys == {mFieldsProp.entries[i].key : i \in 1..Len(mFieldsProp.entries)}

SourceNames == NamesOf(mExtracted) \cup FieldsPropKeys \cup MapKeys(mTable)

\* C16: the names of the merged field list, and the keys of the compiled
\* schema's properties, are exactly the names extracted from children, the
\* keys of the fields prop and the names in the registration table together.
C16_MergedNamesAreUnion ==
    Rendered =>
        /\ NamesOf(mMerged) = SourceNames
        /\ Range(ObjKeys(mSchema.properties)) = SourceNames

\* C17: rendering again with the entries of the fields prop, or the entries
\* of the registration table, iterated in another order yields the same merged
\* content: the same set of field definitions, attribute for attribute.
C17_OrderInsensitive ==
    [][mPc' = "reordered" => Range(mMerged') = Range(mMerged)]_vars

\* rendered with a two-entry fields prop whose second declared entry came
\* first, or with a two-entry table whose later registration comes first
C17_Witness ==
    /\ mPc = "reordered"
    /\ Len(mMerged) >= 2
    /\ \/ /\ Len(mFieldsProp.entries) = 2
          /\ mFieldsProp.entries[1].key = "Zulu"
          /\ "Zulu" \notin NamesOf(mExtracted)
       \/ /\ Len(mTable) = 2
          /\ mTable[1].key = mFieldProps[2].name
          /\ mTable[2].key = mFieldProps[1].name

\* enumValues is the list of the oneOf entries' values, in the same order
OneOfProjected(f) ==
    Has(f, "oneOf") =>
        /\ Has(f, "enumValues")
        /\ f.enumValues = [i \in 1..Len(f.oneOf) |-> f.oneOf[i].value]

\* C18: every field definition handed to the compiler (every element of the
\* merged list, whether it comes from children, a fields-prop override, a
\* registration merge or a WebMCP.Field) that has oneOf has enumValues equal
\* to the oneOf entries' values in the same order.
C18_EnumValuesProjectOneOf ==
    Rendered => \A i \in 1..Len(mMerged) : OneOfProjected(mMerged[i])

\* C19: no field definition of the merged list has the empty string as its
\* name, whatever the children, the fields prop and the registrations.
C19_NamesNonEmpty ==
    Rendered => \A i \in 1..Len(mMerged) : mMerged[i].name # ""

\* the values found on the three lookup paths, in order, "" where a path
\* yields nothing
LookupPaths(props) ==
    << IF Has(props, "name") THEN props.name ELSE "",
       IF Has(props, "inputProps") /\ Has(props.inputProps, "name")
       THEN props.inputProps.name ELSE "",
       IF Has(props, "slotProps") /\ Has(props.slotProps, "input")
          /\ Has(props.slotProps.input, "name")
       THEN props.slotProps.input.name ELSE "" >>

\* the first non-empty name on the three paths, "" when there is none
FirstNonEmptyName(props) ==
    LET paths == LookupPaths(props)
    IN  IF \A k \in 1..3 : paths[k] = "" THEN ""
        ELSE paths[CHOOSE k \in 1..3 :
                       paths[k] # "" /\ \A j \in 1..(k - 1) : paths[j] = ""]

\* the names under which the elements of a tree are to be extracted: an
\* element with a non-empty name on some path under the first such name, the
\* children of any other element searched in turn
RECURSIVE ExpectedNames(_)
ExpectedNames(children) ==
    LET OfChild(child) ==
            IF ~isValidElement(child) THEN <<>>
            ELSE IF FirstNonEmptyName(child.props) # ""
            THEN <<FirstNonEmptyName(child.props)>>
            ELSE IF ChildrenTruthy(child.props)
            THEN ExpectedNames(child.props.children)
            ELSE <<>>
    IN  Flatten([i \in 1..Len(children) |-> OfChild(children[i])])

\* C20: extractFields extracts an element exactly when one of props.name,
\* props.inputProps.name, props.slotProps.input.name yields a non-empty
\* name, under the first such name in that order.
C20_FirstNonEmptyPathNames ==
    Rendered =>
        [i \in 1..Len(mExtracted) |-> mExtracted[i].name] = ExpectedNames(mChildren)

\* the positions of the nodes of a tree: a position is the sequence of child
\* indices leading to the node
MaxTreeDepth == 3

MaxTreeWidth == 3

RECURSIVE NodeAt(_, _)
NodeAt(children, pos) ==
    IF Len(pos) = 1 THEN children[pos[1]]
    ELSE NodeAt(children[pos[1]].props.children, Tail(pos))

RECURSIVE IsPosition(_, _)
IsPosition(children, pos) ==
    /\ pos[1] \in 1..Len(children)
    /\ Len(pos) > 1 =>
          /\ isValidElement(children[pos[1]])
          /\ Has(children[pos[1]].props, "children")
          /\ IsPosition(children[pos[1]].props.children, Tail(pos))

Positions(children) ==
    {pos \in UNION {[1..d -> 1..MaxTreeWidth] : d \in 1..MaxTreeDepth} :
        IsPosition(children, pos)}

\* an element that has a name: a non-empty name on one of the lookup paths
IsNamed(node) == isValidElement(node) /\ FirstNonEmptyName(node.props) # ""

\* the named elements with no named ancestor
TopNamed(children) ==
    {pos \in Positions(children) :
        /\ IsNamed(NodeAt(children, pos))
        /\ \A d \in 1..(Len(pos) - 1) : ~IsNamed(NodeAt(children, SubSeq(pos, 1, d)))}

\* p comes before q in depth-first pre-order, for positions of which neither
\* is above the other
Before(p, q) ==
    \E d \in 1..Len(p) :
        /\ d <= Len(q)
        /\ SubSeq(p, 1, d - 1) = SubSeq(q, 1, d - 1)
        /\ p[d] < q[d]

PreOrder(positions) ==
    [k \in 1..Cardinality(positions) |->
        CHOOSE p \in positions :
            Cardinality({q \in positions : Before(q, p)}) = k - 1]

\* C21: extractFields returns one field per named element without a named
\* ancestor, in depth-first pre-order; nothing below a named element and no
\* text node contributes a field.
C21_TopNamedInPreOrder ==
    Rendered =>
        LET expected == PreOrder(TopNamed(mChildren))
        IN  [i \in 1..Len(mExtracted) |-> mExtracted[i].name]
              = [k \in 1..Len(expected) |->
                    FirstNonEmptyName(NodeAt(mChildren, expected[k]).props)]

-----------------------------------------------------------------------------
(* Properties of useRegisterField, under SpecRegister *)

\* C22: without an enclosing tool scope no step of the component (mount,
\* render with another field, unmount) throws or calls registerField or
\* unregisterField; the mount leaves the component mounted and logs one
\* warning, none in production, and later renders keep it mounted.
C22_NoContextIsHarmless ==
    [][rCtx = NoContext =>
          /\ rCalls' = <<>>
          /\ rPc' # "crashed"
          /\ rProduction => rWarnings' = <<>>
          /\ rPc = "unmounted" =>
                /\ rPc' = "mounted"
                /\ Len(rWarnings') = IF rProduction THEN 0 ELSE 1
          /\ rPc = "mounted" /\ rField' # NoField => rPc' = "mounted"]_vars

\* the component of the test mounted outside a provider, and warned
C22_Witness ==
    /\ rCtx = NoContext
    /\ ~rProduction
    /\ rPc = "mounted"
    /\ rField = [name |-> "orphan"]
    /\ rWarnings = <<NoContextWarning(rField)>>
    /\ rCalls = <<>>

\* C26: under a tool scope the mount calls registerField once with the
\* field; a later render whose field fingerprint differs from the previous
\* render's calls unregisterField with the name registered before and then
\* registerField with the new field; a render with an equal fingerprint, so
\* any render with a value-equal field, calls neither.
C26_ReRegistersOnFingerprintChange ==
    [][rCtx # NoContext =>
          /\ rPc = "unmounted" /\ rPc' = "mounted" =>
                rCalls' = <<[op |-> "registerField", arg |-> rField']>>
          /\ rPc = "mounted" /\ rPc' = "mounted" =>
                IF fieldFingerprint(rField') # fieldFingerprint(rField)
                THEN rCalls' = <<[op |-> "unregisterField", arg |-> rEffect.field.name],
                                 [op |-> "registerField", arg |-> rField']>>
                ELSE rCalls' = <<>>
          /\ rField' = rField => rCalls' = <<>>]_vars

\* a mounted component was re-rendered with a field of another name and
\* re-registered
C26_Witness ==
    /\ rCtx # NoContext
    /\ rPc = "mounted"
    /\ rCalls = <<[op |-> "unregisterField", arg |-> "email"],
                  [op |-> "registerField", arg |-> rField]>>
    /\ rField.name = "priority"

-----------------------------------------------------------------------------
(* Properties of useWebMCPTool, under SpecTool *)

\* an annotations object by value: its members, whatever their order
AnnotationsValue(a) == {<<a[i].key, a[i].value>> : i \in 1..Len(a)}

\* the definition members of a config by value; a member that is not given
\* differs from every value it can be given
DefinitionValue(config) ==
    [name |-> config.name,
     description |-> config.description,
     inputSchema |-> config.inputSchema,
     outputSchema |-> IF Has(config, "outputSchema") THEN <<config.outputSchema>>
                      ELSE <<>>,
     annotations |-> IF Has(config, "annotations")
                     THEN <<AnnotationsValue(config.annotations)>> ELSE <<>>]

\* C23: with navigator.modelContext available, a re-render calls registerTool
\* or unregisterTool exactly when the name, description, inputSchema,
\* outputSchema or annotations of the config differ by value from those of
\* the previous render; a change of execute alone, or objects with equal
\* contents, cause no call.
C23_ReRegistersIffValueChanged ==
    [][tMc /\ tStep' = "render" =>
          ((tCalls' # <<>>) <=> DefinitionValue(tConfig') # DefinitionValue(tConfig))]_vars

\* C24: every invocation of a registered execute function calls the handler
\* of the most recent render with the input it was given, also when the
\* tool definition was registered by an earlier render with another handler.
C24_ExecuteCallsLatestHandler ==
    [][tStep' = "invoke" /\ tInvoked' # tInvoked =>
          /\ tInvoked'.handler = tConfig.execute
          /\ tInvoked'.input \in {"hello", "world"}]_vars

\* the tool registered with the first handler was invoked after a re-render
\* with the second handler that caused no re-registration
C24_Witness ==
    /\ tStep = "invoke"
    /\ tInvoked = [handler |-> "execute2", input |-> "world"]
    /\ tConfig.execute = "execute2"
    /\ \E toolDef \in tRegistry : toolDef.execute.captured = "execute1"

\* the names of the tool definitions registered
RegisteredNames == {toolDef.name : toolDef \in tRegistry}

\* C25: with navigator.modelContext available, the mount calls registerTool;
\* every later registerTool comes right after unregisterTool with the name
\* registered last; the unmount calls unregisterTool with that name; at most
\* one tool of the instance is registered at any time, none after unmount.
C25_OneToolAtATime ==
    [][tMc =>
          /\ tStep' = "mount" =>
                tCalls' = <<[op |-> "registerTool", arg |-> ToolDef(tConfig')]>>
          /\ tStep' = "render" /\ tCalls' # <<>> =>
                tCalls' = <<[op |-> "unregisterTool", arg |-> tEffect.config.name],
                            [op |-> "registerTool", arg |-> ToolDef(tConfig')]>>
          /\ tStep' = "unmount" /\ tPc = "mounted" =>
                /\ tCalls' = <<[op |-> "unregisterTool", arg |-> tEffect.config.name]>>
                /\ tRegistry' = {}
          /\ Cardinality(tRegistry') <= 1
          /\ tRegistry' # {} => RegisteredNames' = {tEffect'.config.name}]_vars

\* the tool was re-registered under another name and the old one is gone
C25_Witness ==
    /\ tMc
    /\ tStep = "render"
    /\ tCalls = <<[op |-> "unregisterTool", arg |-> "test-tool"],
                  [op |-> "registerTool", arg |-> ToolDef(tConfig)]>>
    /\ RegisteredNames = {"tool-b"}

-----------------------------------------------------------------------------
(* Properties of the schema cache, under SpecMerge *)

\* C27: at every render the schema returned is buildInputSchema of the
\* current merged field list; the cache keyed by the merged list's
\* fingerprint never keeps a schema that the compiler would not produce
\* from the current list.
C27_SchemaIsCompiledFromMerged ==
    Rendered => mSchema = buildInputSchema(mMerged)

\* the field map of the current render, before Array.from(fieldMap.values())
CurrentFieldMap ==
    MergeContext(MergeFieldsProp(MergeChildren(<<>>, mExtracted), mFieldsProp.entries),
                 mTable)

\* C28: every entry of the field map holds a field named like its key, and
\* the names of the merged list are pairwise distinct, for every fields prop.
C28_MapKeysAreNames ==
    Rendered =>
        /\ \A i \in 1..Len(CurrentFieldMap) :
              CurrentFieldMap[i].value.name = CurrentFieldMap[i].key
        /\ \A i, j \in 1..Len(mMerged) : mMerged[i].name = mMerged[j].name => i = j

-----------------------------------------------------------------------------
(* Properties of shared registrations, under Spec *)

\* C29: the name a mounted component registered through useRegisterField is
\* in the registration table, and after the next render in the compiled
\* schema, whatever other components that registered the same name did since.
C29_RegisteredNameStays ==
    \A c \in Comps :
        comps[c].mounted =>
            /\ InContext(comps[c].effect.name)
            /\ Settled => ObjHas(hSchema.properties, comps[c].effect.name)

-----------------------------------------------------------------------------
(* Specification SpecScope: one WebMCPTool.  It renders useSchemaCollector *)
(* and hands the schema to useWebMCPTool, whose effect runs in the commit  *)
(* of the same render; components under it call useRegisterField.  A call  *)
(* of registerField or unregisterField schedules a render through          *)
(* setVersion, and React runs every scheduled render.                      *)

ScopeToolName == "send_email"

ScopeToolDescription == "Send an email to a user"

ScopeChildrenPool ==
    { <<El([name |-> "email"])>>,
      <<El([name |-> "email", type |-> "number", required |-> [b |-> TRUE]])>> }

ScopeFieldsEntriesPool ==
    { <<[key |-> "email", value |-> [title |-> "x", description |-> "y::z"]]>>,
      <<[key |-> "email", value |-> [title |-> "x::y", description |-> "z"]]>> }

\* the fields prop a render may receive after prev: the same object or a
\* newly allocated one
ScopeFieldsPropChoices(prev) ==
    {prev} \cup {[ref |-> FreshRef(prev), entries |-> e] : e \in ScopeFieldsEntriesPool}

\* the component under the tool that calls useRegisterField
ScopeComp == "c1"

ScopeInit ==
    /\ BuildIdle
    /\ ValidateIdle
    /\ FingerprintIdle
    /\ MergeIdle
    /\ RegisterIdle
    /\ hPc = "unmounted"
    /\ hProduction = FALSE
    /\ hProps = NoProps
    /\ contextFields = <<>>
    /\ version = 0
    /\ hMergedDeps = NoDeps
    /\ hMerged = <<>>
    /\ hSchemaDep = ""
    /\ hSchema = NoSchema
    /\ hMemoInputs = NoInputs
    /\ hRecomputed = [merged |-> FALSE, schema |-> FALSE]
    /\ hWarnings = <<>>
    /\ hThrown = NoError
    /\ comps = [c \in Comps |-> Unmounted]
    /\ hCalls = NoCalls
    /\ tMc = TRUE
    /\ tPc = "unmounted"
    /\ tConfig = NoConfig
    /\ tDeps = <<>>
    /\ tRegisteredName = ""
    /\ tEffect = [config |-> NoConfig, cleanup |-> FALSE]
    /\ tRegistry = {}
    /\ tCalls = <<>>
    /\ tErrors = <<>>
    /\ tStep = ""
    /\ tInvoked = NoInvocation

\* the config WebMCPTool hands to useWebMCPTool
ScopeToolConfig(schema) ==
    [name |-> ScopeToolName, description |-> ScopeToolDescription,
     inputSchema |-> schema, execute |-> "executeRef"]

\* The commit of a render of WebMCPTool that computed deps, merged, mergedFP
\* and schema: the memos keep them, and useWebMCPTool, called with
\* inputSchema: schema, runs the cleanup of its previous effect and its
\* effect when its dependencies changed.
ScopeCommit(children, fieldsProp, childrenFields, deps, merged, mergedFP, schema, toolDeps) ==
    LET first == hPc = "unmounted"
        runMerged == first \/ deps # hMergedDeps
        runSchema == first \/ mergedFP # hSchemaDep
        validation == IF runMerged /\ ~hProduction
                      THEN validateSchema(merged, EmptyObj, hProduction)
                      ELSE [issues |-> <<>>, warnings |-> <<>>, thrown |-> NoError]
        config == ScopeToolConfig(schema)
        cleaned == ToolCleanup(tRegistry, tEffect)
        ref == IF tEffect.cleanup THEN "" ELSE tRegisteredName
        run == ToolEffect(tMc, cleaned.registry, ref, config, TRUE)
    IN  /\ hProps' = [children |-> children, fields |-> fieldsProp, options |-> EmptyObj]
        /\ hPc' = "live"
        /\ hMergedDeps' = deps
        /\ hMerged' = merged
        /\ hSchemaDep' = mergedFP
        /\ hSchema' = schema
        /\ hRecomputed' = [merged |-> runMerged, schema |-> runSchema]
        /\ hMemoInputs' =
              IF runMerged
              THEN [children |-> childrenFields, fields |-> fieldsProp.entries,
                    table |-> contextFields]
              ELSE hMemoInputs
        /\ hWarnings' = validation.warnings
        /\ hThrown' = validation.thrown
        /\ hCalls' = [hCalls EXCEPT !.absent = FALSE]
        /\ tConfig' = config
        /\ tDeps' = toolDeps
        /\ IF toolDeps # tDeps
           THEN /\ tEffect' = [config |-> config, cleanup |-> run.cleanup]
                /\ tRegistry' = run.registry
                /\ tRegisteredName' = run.ref
                /\ tCalls' = cleaned.calls \o run.calls
                /\ tErrors' = run.errors
           ELSE /\ tCalls' = <<>>
                /\ tErrors' = <<>>
                /\ UNCHANGED <<tEffect, tRegistry, tRegisteredName>>
        /\ tPc' = "mounted"
        /\ tStep' = IF first THEN "mount" ELSE "render"
        /\ UNCHANGED <<hProduction, contextFields, version, comps>>
        /\ UNCHANGED <<tMc, tInvoked>>
        /\ UNCHANGED <<bvars, vvars, fvars, mvars, rvars>>

\* One render of WebMCPTool({children, fields}), strict being undefined:
\* useSchemaCollector computes childrenFields and the dependencies of the
\* merged memo, merged, mergedFP and schema, each once, then the render
\* commits.
ScopeRenderWith(children, fieldsProp) ==
    \E childrenFields \in {extractFields(children)} :
      \E deps \in {[childrenFP |-> fieldsFingerprint(childrenFields),
                     fieldsProp |-> fieldsProp, version |-> version,
                     strict |-> EmptyObj]} :
        \E merged \in {IF hPc = "unmounted" \/ deps # hMergedDeps
                        THEN ComputeMerged(childrenFields, fieldsProp, contextFields)
                        ELSE hMerged} :
          \E mergedFP \in {fieldsFingerprint(merged)} :
            \E schema \in {IF hPc = "unmounted" \/ mergedFP # hSchemaDep
                            THEN buildInputSchema(merged) ELSE hSchema} :
              \E toolDeps \in {ToolDeps(ScopeToolConfig(schema))} :
                ScopeCommit(children, fieldsProp, childrenFields, deps, merged,
                            mergedFP, schema, toolDeps)

\* WebMCPTool mounts with the props its parent gives it
ScopeMount ==
    /\ hPc = "unmounted"
    /\ \E children \in ScopeChildrenPool, fieldsProp \in ScopeFieldsPropChoices(hProps.fields) :
          ScopeRenderWith(children, fieldsProp)

\* the parent renders WebMCPTool again with props of its choice
ScopeRenderByParent ==
    /\ hPc = "live"
    /\ \E children \in ScopeChildrenPool, fieldsProp \in ScopeFieldsPropChoices(hProps.fields) :
          ScopeRenderWith(children, fieldsProp)

\* the render that setVersion scheduled, with the props of the last render
ScopeRenderScheduled ==
    /\ hPc = "live"
    /\ hMergedDeps.version # version
    /\ ScopeRenderWith(hProps.children, hProps.fields)

ScopeCompMount == \E field \in RegisterPool : CompMount(ScopeComp, field)

ScopeCompRerender == \E field \in RegisterPool : CompRerender(ScopeComp, field)

ScopeCompUnmount == CompUnmount(ScopeComp)

ScopeNext ==
    \/ ScopeMount
    \/ ScopeRenderByParent
    \/ ScopeRenderScheduled
    \/ ScopeCompMount
    \/ ScopeCompRerender
    \/ ScopeCompUnmount

SpecScope == ScopeInit /\ [][ScopeNext]_vars /\ WF_vars(ScopeRenderScheduled)

-----------------------------------------------------------------------------
(* Properties of the WebMCPTool scope, under SpecScope *)

\* no render is scheduled
ScopeQuiescent == hPc = "live" /\ hMergedDeps.version = version

\* the merge of the current children fields, fields prop and registration
\* table
ScopeCurrentMerged ==
    ComputeMerged(extractFields(hProps.children), hProps.fields, contextFields)

\* the tool registered with navigator.modelContext is the scope's tool with
\* the schema compiled from the current sources
ScopeSchemaCurrent ==
    /\ \E d \in tRegistry : d.name = ScopeToolName
    /\ \A d \in tRegistry :
          /\ d.name = ScopeToolName
          /\ d.inputSchema = buildInputSchema(ScopeCurrentMerged)

\* C30: once WebMCPTool has mounted, whatever registrations, unregistrations
\* and prop changes follow, the scope reaches a state in which no render is
\* scheduled and the registered tool's inputSchema is buildInputSchema of the
\* merge of the current children fields, fields prop and registration table.
C30_SettlesOnCurrentSchema ==
    (hPc = "live") ~> (ScopeQuiescent /\ ScopeSchemaCurrent)

=============================================================================
